---- MODULE Spec2Model ----
(***************************************************************************)
(* Building layer of the MUD: dig / tunnel / destroy commands, the         *)
(* coordinate worm, the room type hierarchy with its sculpting menu, the   *)
(* biome catalog and the learning dice roller.                             *)
(*                                                                         *)
(* Four specifications share this module, each over its own variables:     *)
(*   SpecBuild  - the world edited by dig, tunnel and destroy              *)
(*   SpecWorm   - one @coordworm run over a room graph                     *)
(*   SpecRoom   - one room: creation, update, traits menu, biomes          *)
(*   SpecRoll   - return_a_roll over a stubbed sequence of draws           *)
(***************************************************************************)
EXTENDS Integers, Sequences, FiniteSets, TLC

VARIABLES
    \* ---- world (SpecBuild) ----
    rooms,      \* dbref -> room record
    exits,      \* dbref -> exit record
    nextId,     \* next free dbref
    dug,        \* rooms created so far
    caller,     \* the builder's character
    last,       \* outcome of the latest command (what caller.msg reported)
    \* ---- coordinate worm (SpecWorm) ----
    wrooms,     \* room id -> traits / info the worm reads and writes
    wexits,     \* the exits of the graph
    worm,       \* the CoordinateWorm object and its call stack
    \* ---- one room under the sculpting menu (SpecRoom) ----
    rm,
    \* ---- dice roller (SpecRoll) ----
    roll,
    \* ---- adjacency search of the exits sub-menu (SpecAdjacent) ----
    adj,
    \* ---- overhead map (SpecMap) ----
    mworld,     \* the rooms and exits around the observer
    mp,         \* the Map object, its grid and its call stack
    \* ---- items and their holders (SpecItem) ----
    it

buildVars == <<rooms, exits, nextId, dug, caller, last>>
wormVars  == <<wrooms, wexits, worm>>
roomVars  == <<rm>>
rollVars  == <<roll>>
adjVars   == <<adj>>
mapVars   == <<mworld, mp>>
itemVars  == <<it>>
laterVars == <<adj, mworld, mp, it>>
vars == <<rooms, exits, nextId, dug, caller, last, wrooms, wexits, worm, rm, roll,
          adj, mworld, mp, it>>

Range(f) == {f[i] : i \in DOMAIN f}

(***************************************************************************)
(* Bounds                                                                  *)
(***************************************************************************)
MaxDigs == 2
NRooms == 3
MaxExits == 2

(***************************************************************************)
(* Direction vocabulary                                                    *)
(***************************************************************************)
CompassNames ==
    {"north", "east", "west", "south", "northeast", "northwest", "southeast", "southwest"}

CompassShort == {"n", "e", "w", "s", "ne", "nw", "se", "sw"}

\* CmdTunnel.directions: short code -> (full name, opposite short code)
directions ==
    [d \in {"n", "ne", "e", "se", "s", "sw", "w", "nw", "u", "d", "i", "o"} |->
        CASE d = "n"  -> <<"north", "s">>
          [] d = "ne" -> <<"northeast", "sw">>
          [] d = "e"  -> <<"east", "w">>
          [] d = "se" -> <<"southeast", "nw">>
          [] d = "s"  -> <<"south", "n">>
          [] d = "sw" -> <<"southwest", "ne">>
          [] d = "w"  -> <<"west", "e">>
          [] d = "nw" -> <<"northwest", "se">>
          [] d = "u"  -> <<"up", "d">>
          [] d = "d"  -> <<"down", "u">>
          [] d = "i"  -> <<"in", "o">>
          [] d = "o"  -> <<"out", "i">>]

\* DigOffset with the x offsets of the two northern diagonals exchanged
DigOffset_swapped(name) ==
    CASE name = "north" \/ name = "n"      -> <<0, 1, TRUE>>
      [] name = "east" \/ name = "e"       -> <<1, 0, TRUE>>
      [] name = "south" \/ name = "s"      -> <<0, -1, TRUE>>
      [] name = "west" \/ name = "w"       -> <<-1, 0, TRUE>>
      [] name = "northwest" \/ name = "nw" -> <<1, 1, TRUE>>
      [] name = "northeast" \/ name = "ne" -> <<-1, 1, TRUE>>
      [] name = "southwest" \/ name = "sw" -> <<-1, -1, TRUE>>
      [] name = "southeast" \/ name = "se" -> <<1, -1, TRUE>>
      [] OTHER                             -> <<0, 0, FALSE>>

\* The chain of ifs in CmdDig.func that places the new room: the offset
\* selected by the forward exit's name, <<0, 0, FALSE>> when no branch fires.
DigOffset(name) ==
    CASE name = "north" \/ name = "n"      -> <<0, 1, TRUE>>
      [] name = "east" \/ name = "e"       -> <<1, 0, TRUE>>
      [] name = "south" \/ name = "s"      -> <<0, -1, TRUE>>
      [] name = "west" \/ name = "w"       -> <<-1, 0, TRUE>>
      [] name = "northwest" \/ name = "nw" -> <<-1, 1, TRUE>>
      [] name = "northeast" \/ name = "ne" -> <<1, 1, TRUE>>
      [] name = "southwest" \/ name = "sw" -> <<-1, -1, TRUE>>
      [] name = "southeast" \/ name = "se" -> <<1, -1, TRUE>>
      [] OTHER                             -> <<0, 0, FALSE>>

(***************************************************************************)
(* SpecBuild: the world, and the commands dig, tunnel and destroy          *)
(***************************************************************************)
\* An exit specification of a dig command line: "name;alias"
ExitSpec(name, aliases) == [name |-> name, aliases |-> aliases]

NoLast ==
    [cmd |-> "none", lhs |-> "", sw |-> {}, rhs |-> <<>>, origin |-> 0,
     room |-> 0, fwd |-> 0, back |-> 0, msg |-> "none"]

\* Room.at_object_creation as far as the world commands read it: X = Y = 0,
\* zone 'The Outdoors', the forest glyph set.
NewOutdoorRoom ==
    [typeclass |-> "Room", hasTraits |-> TRUE, xcord |-> 0, ycord |-> 0,
     zone |-> "The Outdoors", map_symbol |-> "Forest"]

\* IndoorRoom.at_object_creation calls super(Room, self), which skips
\* Room.at_object_creation; no trait and no info map is ever added and the
\* first assignment, self.traits.size.base = 25, raises.  The object row
\* is already saved when the hook runs.
FailedIndoorRoom ==
    [typeclass |-> "IndoorRoom", hasTraits |-> FALSE, xcord |-> 0, ycord |-> 0,
     zone |-> "unset", map_symbol |-> "unset"]

\* Python values as far as == needs them: a string never equals an object.
PyStr(s) == [py |-> "str", v |-> s]
PyObj(id) == [py |-> "obj", id |-> id]
PyEq(a, b) == a.py = b.py /\ (IF a.py = "str" THEN a.v = b.v ELSE a.id = b.id)

\* location.exits: the list of Exit objects located in the room
ExitsOf(r) == {e \in DOMAIN exits : exits[e].location = r}

\* `exitshort in self.caller.location.exits` (CmdTunnel.func)
ExitshortInExits(exitshort, r) ==
    \E e \in ExitsOf(r) : PyEq(PyStr(exitshort), PyObj(e))

\* CmdDig.func, for a command line with switches sw and exit specs rhs,
\* issued as command `cmd` with left-hand side lhs.
DigFunc(cmd, lhs, sw, rhs) ==
    LET location == caller.location
        rid == nextId
        typeclass == IF "indoor" \in sw THEN "IndoorRoom" ELSE "Room"
    IN  IF typeclass = "IndoorRoom"
        THEN \* create_object raises out of at_object_creation: the command
             \* ends in a traceback after the room row was saved
             /\ rooms' = rooms @@ (rid :> FailedIndoorRoom)
             /\ nextId' = nextId + 1
             /\ dug' = dug + 1
             /\ last' = [cmd |-> cmd, lhs |-> lhs, sw |-> sw, rhs |-> rhs,
                         origin |-> location, room |-> rid, fwd |-> 0, back |-> 0,
                         msg |-> "traceback"]
             /\ UNCHANGED <<exits, caller>>
        ELSE
          LET off == IF Len(rhs) > 0 THEN DigOffset(rhs[1].name) ELSE <<0, 0, FALSE>>
              r0 == NewOutdoorRoom
              r1 == IF "samezone" \in sw THEN [r0 EXCEPT !.zone = rooms[location].zone] ELSE r0
              r2 == IF "samemap" \in sw
                    THEN [r1 EXCEPT !.map_symbol = rooms[location].map_symbol] ELSE r1
              r3 == IF off[3]
                    THEN [r2 EXCEPT !.xcord = rooms[location].xcord + off[1],
                                    !.ycord = rooms[location].ycord + off[2]]
                    ELSE r2
              mkFwd == Len(rhs) > 0 /\ rhs[1].name # ""
              mkBack == Len(rhs) > 1 /\ rhs[2].name # ""
              fid == IF mkFwd THEN rid + 1 ELSE 0
              bid == IF mkBack THEN (IF mkFwd THEN rid + 2 ELSE rid + 1) ELSE 0
              fwdExit == IF mkFwd
                         THEN (fid :> [name |-> rhs[1].name, aliases |-> rhs[1].aliases,
                                       location |-> location, destination |-> rid])
                         ELSE << >>
              backExit == IF mkBack
                          THEN (bid :> [name |-> rhs[2].name, aliases |-> rhs[2].aliases,
                                        location |-> rid, destination |-> location])
                          ELSE << >>
          IN  /\ rooms' = rooms @@ (rid :> r3)
              /\ exits' = (exits @@ fwdExit) @@ backExit
              /\ nextId' = rid + 1 + (IF mkFwd THEN 1 ELSE 0) + (IF mkBack THEN 1 ELSE 0)
              /\ dug' = dug + 1
              /\ caller' = IF "teleport" \in sw
                           THEN [caller EXCEPT !.location = rid] ELSE caller
              /\ last' = [cmd |-> cmd, lhs |-> lhs, sw |-> sw, rhs |-> rhs,
                          origin |-> location, room |-> rid, fwd |-> fid, back |-> bid,
                          msg |-> "created"]

\* dig[/switches] <roomname> [= <exit_there>[;alias]] [, <exit_back>[;alias]]
Dig(sw, rhs) ==
    /\ caller.exists
    /\ dug < MaxDigs
    /\ DigFunc("dig", "room", sw, rhs)

\* tunnel[/switch] <direction>
Tunnel(lhs, sw) ==
    /\ caller.exists
    /\ dug < MaxDigs
    /\ LET exitshort == lhs
       IN  IF ExitshortInExits(exitshort, caller.location)
           THEN /\ last' = [NoLast EXCEPT !.cmd = "tunnel", !.lhs = lhs, !.sw = sw,
                                          !.origin = caller.location,
                                          !.msg = "already_exit"]
                /\ UNCHANGED <<rooms, exits, nextId, dug, caller>>
           ELSE IF exitshort \notin DOMAIN directions
           THEN /\ last' = [NoLast EXCEPT !.cmd = "tunnel", !.lhs = lhs, !.sw = sw,
                                          !.origin = caller.location,
                                          !.msg = "bad_direction"]
                /\ UNCHANGED <<rooms, exits, nextId, dug, caller>>
           ELSE LET exitname == directions[exitshort][1]
                    backshort == directions[exitshort][2]
                    backname == directions[backshort][1]
                    telswitch == IF "tel" \in sw THEN {"teleport"} ELSE {}
                    backstring == IF "oneway" \notin sw
                                  THEN <<ExitSpec(backname, {backshort})>> ELSE <<>>
                    more_switches == (sw \cap {"indoor", "outdoor"})
                                       \cup {"samezone", "samemap"}
                IN  DigFunc("tunnel", lhs, telswitch \cup more_switches,
                            <<ExitSpec(exitname, {exitshort})>> \o backstring)

\* The command handler runs these hooks of a command, in this order;
\* CmdDestroy.after_parse is not one of them.
CommandHooks == <<"at_pre_cmd", "parse", "func", "at_post_cmd">>

\* CmdDestroy.after_parse: the guard against deleting oneself or the room
\* one stands in.  Its first line reads the undefined name lhslist.
after_parse(target) ==
    IF "after_parse" \notin Range(CommandHooks) THEN "not_run" ELSE "NameError"

DefaultHome == 2

\* destroy[/switches] obj: CmdDestroy adds no func of its own, the inherited
\* func deletes what the search resolves: target.kind is "me", "here" or
\* "exit" (with the dbref of an exit of the caller's location).
Destroy(target, sw, answer) ==
    /\ caller.exists
    /\ LET location == caller.location
           rep(m) == [NoLast EXCEPT !.cmd = "destroy", !.lhs = target.kind,
                                    !.sw = sw, !.origin = location, !.msg = m]
       IN  IF after_parse(target) = "NameError"
           THEN last' = rep("traceback") /\ UNCHANGED <<rooms, exits, nextId, dug, caller>>
           ELSE IF "force" \notin sw /\ answer = "no"
           THEN last' = rep("cancelled") /\ UNCHANGED <<rooms, exits, nextId, dug, caller>>
           ELSE IF target.kind = "me"
           THEN IF "override" \notin sw
                THEN \* puppeted by an account: the host asks for /override
                     last' = rep("refused_account")
                     /\ UNCHANGED <<rooms, exits, nextId, dug, caller>>
                ELSE /\ caller' = [caller EXCEPT !.exists = FALSE]
                     /\ last' = rep("destroyed")
                     /\ UNCHANGED <<rooms, exits, nextId, dug>>
           ELSE IF target.kind = "here"
           THEN IF location = DefaultHome
                THEN last' = rep("refused_home")
                     /\ UNCHANGED <<rooms, exits, nextId, dug, caller>>
                ELSE \* the room goes, with the exits from and to it; its
                     \* contents are sent home
                     /\ rooms' = [r \in DOMAIN rooms \ {location} |-> rooms[r]]
                     /\ exits' = [e \in {x \in DOMAIN exits :
                                            /\ exits[x].location # location
                                            /\ exits[x].destination # location}
                                  |-> exits[e]]
                     /\ caller' = [caller EXCEPT !.location = caller.home]
                     /\ last' = rep("destroyed")
                     /\ UNCHANGED <<nextId, dug>>
           ELSE /\ target.id \in ExitsOf(location)
                /\ exits' = [e \in DOMAIN exits \ {target.id} |-> exits[e]]
                /\ last' = rep("destroyed")
                /\ UNCHANGED <<rooms, nextId, dug, caller>>

\* The command lines the builder types
FullName(d) == directions[d][1]
Opposite(d) == directions[d][2]

DigLines ==
    {[sw |-> t, rhs |-> <<ExitSpec(FullName(d), {d}),
                          ExitSpec(FullName(Opposite(d)), {Opposite(d)})>>] :
        d \in CompassShort, t \in {{}, {"teleport"}}}
    \cup {[sw |-> {}, rhs |-> <<ExitSpec(d, {}), ExitSpec(Opposite(d), {})>>] :
            d \in CompassShort}
    \cup {[sw |-> {}, rhs |-> <<ExitSpec("climb up", {}), ExitSpec("climb down", {})>>],
          [sw |-> {}, rhs |-> <<>>],
          [sw |-> {"indoor"}, rhs |-> <<ExitSpec("north", {"n"}), ExitSpec("south", {"s"})>>],
          [sw |-> {"outdoor", "samezone"},
           rhs |-> <<ExitSpec("", {}), ExitSpec("south", {"s"})>>]}

TunnelLines ==
    {[lhs |-> d, sw |-> {}] : d \in DOMAIN directions \cup {"x"}}
    \cup {[lhs |-> d, sw |-> {"oneway"}] : d \in DOMAIN directions}
    \cup {[lhs |-> "n", sw |-> {"tel"}], [lhs |-> "n", sw |-> {"indoor"}]}

DestroyTargets ==
    {[kind |-> "me", id |-> 0], [kind |-> "here", id |-> 0]}
    \cup {[kind |-> "exit", id |-> e] : e \in ExitsOf(caller.location)}

IdleWorm == [pc |-> "idle"]
IdleRoom == [typeclass |-> "none"]
IdleRoll == [pc |-> "idle"]
IdleAdj == [pc |-> "idle"]
IdleMap == [pc |-> "idle"]
IdleItem == [pc |-> "idle"]

\* The variables of the adjacency search, the map and the items at rest
IdleLater ==
    /\ adj = IdleAdj
    /\ mworld = IdleMap /\ mp = IdleMap
    /\ it = IdleItem

InitBuild ==
    /\ rooms = (2 :> [typeclass |-> "Room", hasTraits |-> TRUE, xcord |-> 2, ycord |-> 3,
                      zone |-> "Newbie School", map_symbol |-> "City"])
    /\ exits = << >>
    /\ nextId = 3
    /\ dug = 0
    /\ caller = [exists |-> TRUE, location |-> 2, home |-> DefaultHome]
    /\ last = NoLast
    /\ wrooms = << >> /\ wexits = {} /\ worm = IdleWorm
    /\ rm = IdleRoom
    /\ roll = IdleRoll
    /\ IdleLater

DigStep ==
    /\ \E c \in DigLines : Dig(c.sw, c.rhs)
    /\ UNCHANGED <<wormVars, roomVars, rollVars, laterVars>>

TunnelStep ==
    /\ \E c \in TunnelLines : Tunnel(c.lhs, c.sw)
    /\ UNCHANGED <<wormVars, roomVars, rollVars, laterVars>>

NextBuild == DigStep \/ TunnelStep

SpecBuild == InitBuild /\ [][NextBuild]_vars

\* The world under tunnel commands alone
NextTunnel == TunnelStep

SpecTunnel == InitBuild /\ [][NextTunnel]_vars

\* The same world under destroy, with the dig lines that give the builder
\* rooms and exits to destroy and move the builder out of the default home.
DestroyDigLines ==
    {[sw |-> {"teleport"}, rhs |-> <<ExitSpec("east", {"e"}), ExitSpec("west", {"w"})>>],
     [sw |-> {}, rhs |-> <<ExitSpec("north", {"n"}), ExitSpec("south", {"s"})>>]}

DestroyDigStep ==
    /\ \E c \in DestroyDigLines : Dig(c.sw, c.rhs)
    /\ UNCHANGED <<wormVars, roomVars, rollVars, laterVars>>

DestroyStep ==
    /\ \E t \in DestroyTargets, sw \in SUBSET {"override", "force"},
          answer \in {"yes", "no"} : Destroy(t, sw, answer)
    /\ UNCHANGED <<wormVars, roomVars, rollVars, laterVars>>

NextDestroy == DestroyDigStep \/ DestroyStep

SpecDestroy == InitBuild /\ [][NextDestroy]_vars

(***************************************************************************)
(* Properties of dig, tunnel and destroy                                   *)
(***************************************************************************)
\* The offset table of the 8 compass directions, by full name
CompassOffset(full) ==
    CASE full = "north"     -> <<0, 1>>
      [] full = "south"     -> <<0, -1>>
      [] full = "east"      -> <<1, 0>>
      [] full = "west"      -> <<-1, 0>>
      [] full = "northeast" -> <<1, 1>>
      [] full = "northwest" -> <<-1, 1>>
      [] full = "southeast" -> <<1, -1>>
      [] full = "southwest" -> <<-1, -1>>

\* The compass direction an exit name stands for: itself, or the full name
\* of a short code
DirectionOf(name) == IF name \in CompassShort THEN FullName(name) ELSE name

\* C1: a dig (without the indoor switch) whose forward exit is named with one
\* of the 8 compass directions, by full name or short code, creates the new
\* room at the origin's X/Y plus that direction's offset, the forward exit
\* from the origin to the new room and the back exit from the new room to
\* the origin.
C1_DigPlacesRoomByDirection ==
    (/\ last.cmd = "dig"
     /\ "indoor" \notin last.sw
     /\ Len(last.rhs) = 2
     /\ last.rhs[1].name \in CompassNames \cup CompassShort)
    => /\ last.room \in DOMAIN rooms
       /\ rooms[last.room].xcord
            = rooms[last.origin].xcord + CompassOffset(DirectionOf(last.rhs[1].name))[1]
       /\ rooms[last.room].ycord
            = rooms[last.origin].ycord + CompassOffset(DirectionOf(last.rhs[1].name))[2]
       /\ last.fwd \in DOMAIN exits
       /\ exits[last.fwd] = [name |-> last.rhs[1].name, aliases |-> last.rhs[1].aliases,
                             location |-> last.origin, destination |-> last.room]
       /\ last.back \in DOMAIN exits
       /\ last.back # last.fwd
       /\ exits[last.back] = [name |-> last.rhs[2].name, aliases |-> last.rhs[2].aliases,
                              location |-> last.room, destination |-> last.origin]

\* dig kitchen = north;n, south;s from (2,3) has put the kitchen at (2,4)
C1_Witness ==
    /\ last.cmd = "dig"
    /\ last.rhs = <<ExitSpec("north", {"n"}), ExitSpec("south", {"s"})>>
    /\ "indoor" \notin last.sw
    /\ rooms[last.origin].xcord = 2 /\ rooms[last.origin].ycord = 3
    /\ rooms[last.room].xcord = 2 /\ rooms[last.room].ycord = 4
    /\ exits[last.fwd].name = "north" /\ exits[last.back].name = "south"

\* An exit of room r answers to the short name
AnswersTo(r, short) ==
    \E e \in ExitsOf(r) : exits[e].name = short \/ short \in exits[e].aliases

\* C2: `tunnel n` from a room that already has an exit answering to n is
\* refused: it creates no room and no exit.
C2_SecondTunnelRefused ==
    [][(/\ last'.cmd = "tunnel"
        /\ last'.lhs = "n"
        /\ AnswersTo(caller.location, "n"))
       => (rooms' = rooms /\ exits' = exits)]_vars

\* C3: after a destroy command the invoking character and the room it was
\* issued from still exist.
C3_DestroySparesSelfAndLocation ==
    last.cmd = "destroy" => (caller.exists /\ last.origin \in DOMAIN rooms)

\* The opposite pairs of tunnel's vocabulary, and the full names
TunnelOpposite(d) ==
    CASE d = "n" -> "s" [] d = "s" -> "n" [] d = "e" -> "w" [] d = "w" -> "e"
      [] d = "ne" -> "sw" [] d = "sw" -> "ne" [] d = "nw" -> "se" [] d = "se" -> "nw"
      [] d = "u" -> "d" [] d = "d" -> "u" [] d = "i" -> "o" [] d = "o" -> "i"

TunnelFull(d) ==
    CASE d = "n" -> "north" [] d = "s" -> "south" [] d = "e" -> "east"
      [] d = "w" -> "west" [] d = "ne" -> "northeast" [] d = "sw" -> "southwest"
      [] d = "nw" -> "northwest" [] d = "se" -> "southeast" [] d = "u" -> "up"
      [] d = "d" -> "down" [] d = "i" -> "in" [] d = "o" -> "out"

TunnelVocabulary == {"n", "ne", "e", "se", "s", "sw", "w", "nw", "u", "d", "i", "o"}

\* What tunnel d with switches sw is to leave, last being the outcome of it
TunnelLeavesDig(d, sw) ==
    /\ last.room \in DOMAIN rooms
    /\ last.fwd \in DOMAIN exits
    /\ exits[last.fwd] = [name |-> TunnelFull(d), aliases |-> {d},
                          location |-> last.origin, destination |-> last.room]
    /\ ("oneway" \in sw) <=> (last.back = 0)
    /\ last.back # 0 =>
         /\ last.back \in DOMAIN exits
         /\ exits[last.back] =
              [name |-> TunnelFull(TunnelOpposite(d)),
               aliases |-> {TunnelOpposite(d)},
               location |-> last.room, destination |-> last.origin]
    /\ rooms[last.room].zone = rooms[last.origin].zone
    /\ rooms[last.room].map_symbol = rooms[last.origin].map_symbol

\* C15: tunnel d leaves what dig leaves for a forward exit named d's full
\* name aliased d and a back exit named and aliased for d's opposite: the
\* back exit is there exactly when oneway was not given, the opposite is an
\* involution, and the new room has the origin's zone and map glyph
C15_TunnelIsDig ==
    [][/\ DOMAIN directions = TunnelVocabulary
       /\ \A d \in TunnelVocabulary : TunnelOpposite(TunnelOpposite(d)) = d
       /\ \A c \in TunnelLines :
            (c.lhs \in TunnelVocabulary /\ Tunnel(c.lhs, c.sw))
               => TunnelLeavesDig(c.lhs, c.sw)']_vars

(***************************************************************************)
(* SpecWorm: @coordworm over a room graph                                  *)
(***************************************************************************)
WRooms == 1 .. NRooms

\* The exit names of one graph come from one of these sets: a direction and
\* its opposite, or a direction and the non-compass name up.
WormPalettes ==
    {{"north", "south"}, {"east", "west"}, {"northeast", "southwest"},
     {"northwest", "southeast"}, {"north", "up"}}

WExitUniverse(names) ==
    {[location |-> a, name |-> n, destination |-> b] : a \in WRooms, n \in names, b \in WRooms}

RECURSIVE SubsetsUpTo(_, _)
SubsetsUpTo(U, k) ==
    IF k = 0 THEN {{}}
    ELSE LET P == SubsetsUpTo(U, k - 1)
         IN  P \cup {s \cup {e} : s \in P, e \in U}

WormGraphs == UNION {SubsetsUpTo(WExitUniverse(names), MaxExits) : names \in WormPalettes}

\* What the rooms hold before the worm runs: any coordinates, zone and
\* outdoor flag the builders left there.
WormRoomsBefore ==
    [r \in WRooms |->
        [xcord |-> IF r = 1 THEN 5 ELSE r - 4,
         ycord |-> IF r = 1 THEN 5 ELSE 0,
         zone |-> IF r = 1 THEN "Newbie School" ELSE "The Outdoors",
         outdoor |-> (r # 2)]]

\* room.exits
WExitsOf(r) == {e \in wexits : e.location = r}

\* update_pos with the southeast branch moving north instead of south
update_pos_southeast_up(has_mapped, room, exit_name) ==
    LET x == has_mapped[room][1]
        y == has_mapped[room][2]
    IN  CASE exit_name = "east"      -> <<x + 1, y>>
          [] exit_name = "west"      -> <<x - 1, y>>
          [] exit_name = "north"     -> <<x, y + 1>>
          [] exit_name = "south"     -> <<x, y - 1>>
          [] exit_name = "northeast" -> <<x + 1, y + 1>>
          [] exit_name = "southeast" -> <<x + 1, y + 1>>
          [] exit_name = "northwest" -> <<x - 1, y + 1>>
          [] exit_name = "southwest" -> <<x - 1, y - 1>>
          [] OTHER                   -> <<x, y>>

\* CoordinateWorm.update_pos: the cursor moves to the room's recorded
\* coordinates, then one step along the exit
update_pos(has_mapped, room, exit_name) ==
    LET x == has_mapped[room][1]
        y == has_mapped[room][2]
    IN  CASE exit_name = "east"      -> <<x + 1, y>>
          [] exit_name = "west"      -> <<x - 1, y>>
          [] exit_name = "north"     -> <<x, y + 1>>
          [] exit_name = "south"     -> <<x, y - 1>>
          [] exit_name = "northeast" -> <<x + 1, y + 1>>
          [] exit_name = "southeast" -> <<x + 1, y - 1>>
          [] exit_name = "northwest" -> <<x - 1, y + 1>>
          [] exit_name = "southwest" -> <<x - 1, y - 1>>
          [] OTHER                   -> <<x, y>>

\* CoordinateWorm.set_room_coordinates: record the room; write the cursor,
\* the zone and the outdoor flag to it unless it is the worm's own location
set_room_coordinates(w, room) ==
    /\ worm' = [w EXCEPT
                  !.has_mapped = (room :> <<w.curX, w.curY>>) @@ w.has_mapped,
                  !.has_mapped_room_ids = Append(w.has_mapped_room_ids, room),
                  !.stack = Append(w.stack, [room |-> room, todo |-> WExitsOf(room)])]
    /\ wrooms' = IF room = w.location
                 THEN wrooms
                 ELSE [wrooms EXCEPT ![room] =
                          [xcord |-> w.curX, ycord |-> w.curY,
                           zone |-> w.zone, outdoor |-> w.outdoors]]

\* @coordworm <room>: create_object runs CoordinateWorm.at_object_creation,
\* which calls explore_map(self.location); the call starts with
\* set_room_coordinates(room)
CoordinatesWormCmd(room) ==
    /\ worm.pc = "idle"
    /\ room \in WRooms
    /\ set_room_coordinates(
          [pc |-> "explore", location |-> room,
           zone |-> wrooms[room].zone, outdoors |-> wrooms[room].outdoor,
           has_mapped |-> << >>, has_mapped_room_ids |-> << >>,
           curX |-> wrooms[room].xcord, curY |-> wrooms[room].ycord,
           stack |-> << >>, coords_reset |-> 0], room)
    /\ UNCHANGED <<wexits, buildVars, roomVars, rollVars, laterVars>>

\* ExploreExit without the test that skips exits not named with a compass
\* direction
ExploreExit_unfiltered ==
    /\ worm.pc = "explore"
    /\ worm.stack # << >>
    /\ LET top == Len(worm.stack)
           frame == worm.stack[top]
       IN  \E exit \in frame.todo :
             LET w1 == [worm EXCEPT !.stack[top].todo = frame.todo \ {exit}]
             IN  IF exit.destination \in Range(worm.has_mapped_room_ids)
                 THEN worm' = w1 /\ wrooms' = wrooms
                 ELSE LET pos == update_pos(worm.has_mapped, frame.room, exit.name)
                      IN  set_room_coordinates(
                             [w1 EXCEPT !.curX = pos[1], !.curY = pos[2]],
                             exit.destination)
    /\ UNCHANGED <<wexits, buildVars, roomVars, rollVars, laterVars>>

\* One iteration of `for exit in room.exits` in the innermost explore_map
ExploreExit ==
    /\ worm.pc = "explore"
    /\ worm.stack # << >>
    /\ LET top == Len(worm.stack)
           frame == worm.stack[top]
       IN  \E exit \in frame.todo :
             LET w1 == [worm EXCEPT !.stack[top].todo = frame.todo \ {exit}]
             IN  IF exit.name \notin CompassNames
                 THEN worm' = w1 /\ wrooms' = wrooms
                 ELSE IF exit.destination \in Range(worm.has_mapped_room_ids)
                 THEN worm' = w1 /\ wrooms' = wrooms
                 ELSE LET pos == update_pos(worm.has_mapped, frame.room, exit.name)
                      IN  set_room_coordinates(
                             [w1 EXCEPT !.curX = pos[1], !.curY = pos[2]],
                             exit.destination)
    /\ UNCHANGED <<wexits, buildVars, roomVars, rollVars, laterVars>>

\* The loop of the innermost explore_map is over: return to its caller
ExploreReturn ==
    /\ worm.pc = "explore"
    /\ worm.stack # << >>
    /\ worm.stack[Len(worm.stack)].todo = {}
    /\ worm' = [worm EXCEPT !.stack = SubSeq(worm.stack, 1, Len(worm.stack) - 1)]
    /\ UNCHANGED <<wrooms, wexits, buildVars, roomVars, rollVars, laterVars>>

\* create_object has returned: report len(worm.has_mapped_room_ids) and
\* delete the worm
WormReport ==
    /\ worm.pc = "explore"
    /\ worm.stack = << >>
    /\ worm' = [worm EXCEPT !.pc = "done",
                            !.coords_reset = Len(worm.has_mapped_room_ids)]
    /\ UNCHANGED <<wrooms, wexits, buildVars, roomVars, rollVars, laterVars>>

IdleBuild ==
    /\ rooms = << >> /\ exits = << >> /\ nextId = 0 /\ dug = 0
    /\ caller = [exists |-> FALSE, location |-> 0, home |-> 0]
    /\ last = NoLast

InitWorm ==
    /\ wexits \in WormGraphs
    /\ wrooms = WormRoomsBefore
    /\ worm = IdleWorm
    /\ IdleBuild
    /\ rm = IdleRoom
    /\ roll = IdleRoll
    /\ IdleLater

\* The room named on the command line; the graphs are drawn around it
WormTargets == {1}

WormStart == \E room \in WormTargets : CoordinatesWormCmd(room)

NextWorm == WormStart \/ ExploreExit \/ ExploreReturn \/ WormReport

SpecWorm == InitWorm /\ [][NextWorm]_vars /\ WF_vars(NextWorm)

(***************************************************************************)
(* Properties of the coordinate worm                                       *)
(***************************************************************************)
\* Every simple path from room r over compass-named exits that avoids the
\* rooms in seen, as <<end room, sum of x offsets, sum of y offsets>>
RECURSIVE WalksFrom(_, _)
WalksFrom(r, seen) ==
    {<<r, 0, 0>>} \cup
    UNION {{<<p[1], p[2] + CompassOffset(e.name)[1], p[3] + CompassOffset(e.name)[2]>> :
               p \in WalksFrom(e.destination, seen \cup {e.destination})} :
           e \in {x \in WExitsOf(r) : x.name \in CompassNames /\ x.destination \notin seen}}

\* The rooms reachable from r over compass-named exits, r included
WormReachable(r) == {p[1] : p \in WalksFrom(r, {r})}

\* No room is reached from r along two paths with different offset sums
\* (true of every graph whose only cycles are forward/back exit pairs)
PathsAgree(r) ==
    \A p, q \in WalksFrom(r, {r}) : p[1] = q[1] => p = q

\* C4: when the worm has run from R over a graph in which the paths from R to
\* a room agree, every room reachable from R holds R's coordinates plus the
\* summed unit offsets of the path to it, and R's coordinates are untouched.
C4_WormAssignsPathOffsets ==
    (worm.pc = "done" /\ PathsAgree(worm.location))
    => /\ \A p \in WalksFrom(worm.location, {worm.location}) :
             p[1] # worm.location =>
                /\ wrooms[p[1]].xcord = WormRoomsBefore[worm.location].xcord + p[2]
                /\ wrooms[p[1]].ycord = WormRoomsBefore[worm.location].ycord + p[3]
       /\ wrooms[worm.location] = WormRoomsBefore[worm.location]

\* The worm went from room 1 at (5,5) two exits deep and came back over the
\* back exit: 1 -dir-> a -dir'-> b, or 1 <-> a
C4_Witness ==
    /\ worm.pc = "done"
    /\ PathsAgree(worm.location)
    /\ Cardinality(WormReachable(worm.location)) = 3
    /\ \E p \in WalksFrom(worm.location, {worm.location}) :
          /\ p[1] # worm.location
          /\ p[2] = 2
          /\ wrooms[p[1]].xcord = 7

\* C5: the walk ends; no room id is ever recorded twice; at the end the
\* recorded ids are the rooms reachable from the start room over compass
\* exits, and the reported count is their number.
C5_WormTerminatesVisitingOnce ==
    /\ <>(worm.pc = "done")
    /\ [](worm.pc \in {"explore", "done"} =>
            \A i, j \in 1 .. Len(worm.has_mapped_room_ids) :
               worm.has_mapped_room_ids[i] = worm.has_mapped_room_ids[j] => i = j)
    /\ [](worm.pc = "done" =>
            /\ Range(worm.has_mapped_room_ids) = WormReachable(worm.location)
            /\ worm.coords_reset = Cardinality(WormReachable(worm.location)))

\* The worm has finished on a graph with a cycle: it left the start room
\* over a compass exit into a room that has a compass exit back, and
\* reports 2 rooms
C5_Witness ==
    /\ worm.pc = "done"
    /\ \E e, f \in wexits :
          /\ e.name \in CompassNames /\ f.name \in CompassNames
          /\ e.location = worm.location /\ e.destination # worm.location
          /\ f.location = e.destination /\ f.destination = worm.location
    /\ worm.coords_reset = 2
    /\ Len(worm.has_mapped_room_ids) = 2

(***************************************************************************)
(* One room: creation, "update here", the traits and biomes sub-menus of   *)
(* the Room Building Menu, apply_biomes and reset_biomes.                  *)
(* Ratios and ruggedness are kept in hundredths (0.03 is 3).               *)
(***************************************************************************)

\* Menu inputs typed into one room
MaxEdits == 3

\* _BIOME_DATA: catalog key -> biome_ratio
BIOME_DATA ==
    [k \in {"road", "trail", "plains", "forest", "jungle", "hills",
            "badlands", "tiaga", "tundra", "swamp", "savannah", "shore",
            "water", "fields", "city"} |-> 0]

\* The keys of MAP_SYMBOLS
MAP_SYMBOLS ==
    {"Crossroads", "EW Road", "NS Road", "NW Road", "SW Road", "NE Road",
     "SE Road", "WT Road", "ET Road", "NT Road", "ST Road", "Plains",
     "Forest", "Jungle", "Mountains/Hills", "Desert/Badlands", "Taiga",
     "Tundra", "Swamp", "Savannah", "Shore", "Water", "Fields", "City",
     "Indoors", "Cave"}

\* TraitHandler.clear() on the biome container
NoBiomes == [k \in {} |-> 0]

\* apply_biomes that adds only the catalog keys the room does not hold yet
apply_biomes_keep(biomes) ==
    [k \in DOMAIN BIOME_DATA |->
        IF k \in DOMAIN biomes THEN biomes[k] ELSE BIOME_DATA[k]]

\* apply_biomes: clear, then add every catalog key with base = biome_ratio.
\* Maps the room's biome container to the container it leaves.
apply_biomes(biomes) ==
    LET cleared == NoBiomes
    IN  [k \in DOMAIN cleared \cup DOMAIN BIOME_DATA |->
            IF k \in DOMAIN BIOME_DATA THEN BIOME_DATA[k] ELSE cleared[k]]

\* Room.reset_biomes: self.biomes.clear(); apply_biomes(self)
reset_biomes(biomes) == apply_biomes(NoBiomes)

\* Python round(n / d) for n, d > 0: to nearest, ties to even
PyRound(n, d) ==
    LET q == n \div d
        r == n % d
    IN  IF 2 * r < d THEN q
        ELSE IF 2 * r > d THEN q + 1
        ELSE IF q % 2 = 0 THEN q ELSE q + 1

\* A counter trait keeps its base inside 0 .. max
CounterBase(v, max) == IF v < 0 THEN 0 ELSE IF v > max THEN max ELSE v

\* A database row of a room whose creation hook has not filled in anything
BareRoom(typeclass) ==
    [typeclass |-> typeclass, hasTraits |-> FALSE, hasInfo |-> FALSE,
     size |-> 0, enc_base |-> 0, enc_max |-> 0, elev |-> 0, xcord |-> 0,
     ycord |-> 0, rot |-> 0, trackmax |-> 0,
     noncombat |-> FALSE, outdoor |-> FALSE, zone |-> "",
     map_symbol |-> "", biomes |-> NoBiomes,
     edits |-> 0, applies |-> 0, road_before |-> 0, msg |-> "",
     biome_input |-> << >>, biomes_before |-> NoBiomes]

NoRoom == BareRoom("none")

\* Room.at_object_creation
RoomAtObjectCreation(r) ==
    LET size == 10000
    IN  [r EXCEPT !.hasTraits = TRUE, !.hasInfo = TRUE,
                  !.size = size, !.enc_base = 0, !.enc_max = size * size,
                  !.elev = 100, !.xcord = 0, !.ycord = 0, !.rot = 3,
                  !.trackmax = PyRound(size, 500),
                  !.noncombat = FALSE, !.outdoor = TRUE,
                  !.zone = "The Outdoors", !.map_symbol = "Forest",
                  !.biomes = apply_biomes(NoBiomes)]

\* IndoorRoom.at_object_creation: super(Room, self) resolves past Room, so
\* the hook of the host's base room runs, which adds nothing.  The first
\* trait assignment then finds no trait unless the room already held some.
\* Returns the room and whether the hook ran to its end.
IndoorRoomAtObjectCreation(r) ==
    IF ~r.hasTraits
    THEN [room |-> r, ok |-> FALSE]
    ELSE [room |-> [r EXCEPT !.size = 25,
                             !.enc_base = CounterBase(10000, r.enc_max),
                             !.rot = 0, !.elev = 0, !.trackmax = 3,
                             !.outdoor = FALSE, !.zone = "None",
                             !.map_symbol = "Indoors"],
          ok |-> r.hasInfo]

\* The creation hook of a typeclass, applied to a room
AtObjectCreation(r) ==
    IF r.typeclass = "Room"
    THEN [room |-> RoomAtObjectCreation(r), ok |-> TRUE]
    ELSE IndoorRoomAtObjectCreation(r)

\* ---- Python conversions of typed text (sequences of characters) ----

DigitChars == {"0", "1", "2", "3", "4", "5", "6", "7", "8", "9"}

DigitVal(c) ==
    CASE c = "0" -> 0 [] c = "1" -> 1 [] c = "2" -> 2 [] c = "3" -> 3
      [] c = "4" -> 4 [] c = "5" -> 5 [] c = "6" -> 6 [] c = "7" -> 7
      [] c = "8" -> 8 [] c = "9" -> 9

IsDigits(s) == s # << >> /\ \A i \in DOMAIN s : s[i] \in DigitChars

RECURSIVE DigitsVal(_)
DigitsVal(s) ==
    IF s = << >> THEN 0
    ELSE 10 * DigitsVal(SubSeq(s, 1, Len(s) - 1)) + DigitVal(s[Len(s)])

\* str.strip() of spaces
RECURSIVE PyStrip(_)
PyStrip(s) ==
    IF s = << >> THEN s
    ELSE IF s[1] = " " THEN PyStrip(Tail(s))
    ELSE IF s[Len(s)] = " " THEN PyStrip(SubSeq(s, 1, Len(s) - 1))
    ELSE s

\* string[a:] and string[:b]
PySliceFrom(s, a) == SubSeq(s, a + 1, Len(s))
PySliceTo(s, b) == SubSeq(s, 1, IF b < Len(s) THEN b ELSE Len(s))

\* The sign and the unsigned rest of a numeral
Signed(s) ==
    IF s # << >> /\ s[1] = "-" THEN [sign |-> -1, body |-> Tail(s)]
    ELSE IF s # << >> /\ s[1] = "+" THEN [sign |-> 1, body |-> Tail(s)]
    ELSE [sign |-> 1, body |-> s]

\* int(text): decimal digits with an optional sign, else ValueError
PyInt(text) ==
    LET t == Signed(PyStrip(text))
    IN  IF IsDigits(t.body) THEN [ok |-> TRUE, v |-> t.sign * DigitsVal(t.body)]
        ELSE [ok |-> FALSE, v |-> 0]

\* Position of the first "." in s, or 0
DotAt(s) ==
    IF \E i \in DOMAIN s : s[i] = "."
    THEN CHOOSE i \in DOMAIN s : s[i] = "." /\ \A j \in 1 .. i - 1 : s[j] # "."
    ELSE 0

\* float(text) in hundredths, for numerals with at most two decimals:
\* digits, digits.digits, digits. or .digits with an optional sign
PyFloat(text) ==
    LET t == Signed(PyStrip(text))
        d == DotAt(t.body)
        whole == IF d = 0 THEN t.body ELSE SubSeq(t.body, 1, d - 1)
        frac == IF d = 0 THEN << >> ELSE SubSeq(t.body, d + 1, Len(t.body))
        okWhole == whole = << >> \/ IsDigits(whole)
        okFrac == frac = << >> \/ (IsDigits(frac) /\ Len(frac) <= 2)
        fracVal == IF frac = << >> THEN 0
                   ELSE IF Len(frac) = 1 THEN 10 * DigitsVal(frac)
                   ELSE DigitsVal(frac)
    IN  IF okWhole /\ okFrac /\ (whole # << >> \/ frac # << >>)
        THEN [ok |-> TRUE, v |-> t.sign * (100 * DigitsVal(whole) + fracVal)]
        ELSE [ok |-> FALSE, v |-> 0]

\* ---- the sub-menus ----

\* nomatch_traits(menu, caller, room, string).  A conversion that raises
\* leaves the room as it was; so does a room without traits, whose
\* room.traits.size is None.
nomatch_traits(room, string) ==
    LET cmd_str == PySliceFrom(string, 3)
        opt == PySliceTo(string, 1)
        failed == [room |-> room, msg |-> "traceback"]
    IN  IF ~(Len(string) > 2) THEN [room |-> room, msg |-> ""]
        ELSE IF opt = <<"1">> THEN
            IF PyInt(cmd_str).ok /\ room.hasTraits
            THEN LET size == PyInt(cmd_str).v
                 IN  [room |-> [room EXCEPT !.size = size,
                                   !.enc_base = CounterBase(size * size, room.enc_max)],
                      msg |-> "Set Size to"]
            ELSE failed
        ELSE IF opt = <<"2">> THEN
            IF PyInt(cmd_str).ok /\ room.hasTraits
            THEN [room |-> [room EXCEPT !.elev = PyInt(cmd_str).v],
                  msg |-> "Set Elevation to"]
            ELSE failed
        ELSE IF opt = <<"3">> THEN
            IF PyInt(cmd_str).ok /\ room.hasTraits
            THEN [room |-> [room EXCEPT !.xcord = PyInt(cmd_str).v],
                  msg |-> "Set X Coordinate to"]
            ELSE failed
        ELSE IF opt = <<"4">> THEN
            IF PyInt(cmd_str).ok /\ room.hasTraits
            THEN [room |-> [room EXCEPT !.ycord = PyInt(cmd_str).v],
                  msg |-> "Set Y Coordinate to"]
            ELSE failed
        ELSE IF opt = <<"5">> THEN
            IF PyFloat(cmd_str).ok /\ room.hasTraits
            THEN [room |-> [room EXCEPT !.rot = PyFloat(cmd_str).v],
                  msg |-> "Set Ruggedness of Terrain to"]
            ELSE failed
        ELSE [room |-> room, msg |-> "Unknown Command"]

\* nomatch_biomes(menu, caller, room, string), on the words string.split()
\* yields.  Two words make a string longer than 2 characters, so the length
\* test passes exactly when there are words to split.
nomatch_biomes(room, split_text) ==
    IF Len(split_text) = 2
    THEN LET biome_name == split_text[1]
             biome_val == PyFloat(split_text[2])
         IN  IF ~biome_val.ok THEN [room |-> room, msg |-> "traceback"]
             ELSE IF biome_name \in MAP_SYMBOLS
             THEN IF "road" \in DOMAIN room.biomes
                  THEN [room |-> [room EXCEPT !.biomes["road"] = biome_val.v],
                        msg |-> "Trying to set"]
                  ELSE [room |-> room, msg |-> "traceback"]
             ELSE [room |-> room, msg |-> "Trying to set"]
    ELSE [room |-> room, msg |-> ""]

\* What the builder types into the traits sub-menu
TraitLines ==
    {<<"1", ".", " ", "5">>,
     <<"1", ".", " ", "2", "0", "0">>,
     <<"1", ".", " ", "2", "0", "0", "0", "0">>,
     <<"1", ".", " ", "a", "b", "c">>,
     <<"1", ".">>,
     <<"2", ".", " ", "0">>,
     <<"2", ".", " ", "-", "5">>,
     <<"3", ".", " ", "1">>,
     <<"3", ".", " ", "1", ".", "5">>,
     <<"4", ".", " ", "2">>,
     <<"5", ".", " ", "0", ".", "5">>,
     <<"5", ".", " ", "x">>,
     <<"6", ".", " ", "1">>}

\* What the builder types into the biomes sub-menu, as words
BiomeLines ==
    {<<"Forest", <<"0", ".", "5">>>>,
     <<"Plains", <<"1">>>>,
     <<"forest", <<"0", ".", "5">>>>,
     <<"road", <<"0", ".", "2", "5">>>>,
     <<"Forest", <<"x">>>>,
     <<"Forest">>,
     <<"EW", "Road", <<"0", ".", "5">>>>}

\* The ratio the room holds for road, 0 when it holds none
RoadRatio(r) == IF "road" \in DOMAIN r.biomes THEN r.biomes["road"] ELSE 0

\* An input other than a biome reset ends a run of resets
Edited(r, msg) == [r EXCEPT !.edits = @ + 1, !.applies = 0, !.msg = msg]

\* create_object with a room typeclass: the row is saved, then the creation
\* hook runs; an exception in the hook leaves the row as it is
CreateRoomStep ==
    /\ rm.typeclass = "none"
    /\ \E typeclass \in {"Room", "IndoorRoom"} :
         LET res == AtObjectCreation(BareRoom(typeclass))
         IN  rm' = [res.room EXCEPT !.msg = IF res.ok THEN "created" ELSE "traceback"]
    /\ UNCHANGED <<buildVars, wormVars, rollVars, laterVars>>

\* update_on_enter: "update here" runs the creation hook of the room again
UpdateHereStep ==
    /\ rm.typeclass # "none"
    /\ rm.edits < MaxEdits
    /\ LET res == AtObjectCreation(rm)
       IN  rm' = Edited(res.room, IF res.ok THEN "updated" ELSE "traceback")
    /\ UNCHANGED <<buildVars, wormVars, rollVars, laterVars>>

TraitsEditStep ==
    /\ rm.typeclass # "none"
    /\ rm.edits < MaxEdits
    /\ \E string \in TraitLines :
         LET res == nomatch_traits(rm, string)
         IN  rm' = Edited(res.room, res.msg)
    /\ UNCHANGED <<buildVars, wormVars, rollVars, laterVars>>

BiomesEditStep ==
    /\ rm.typeclass # "none"
    /\ rm.edits < MaxEdits
    /\ \E split_text \in BiomeLines :
         LET res == nomatch_biomes(rm, split_text)
         IN  rm' = [Edited(res.room, res.msg) EXCEPT
                      !.biome_input = split_text,
                      !.biomes_before = rm.biomes]
    /\ UNCHANGED <<buildVars, wormVars, rollVars, laterVars>>

\* apply_biomes(room) called on the room
ApplyBiomesStep ==
    /\ rm.typeclass # "none"
    /\ rm.edits < MaxEdits
    /\ rm' = [rm EXCEPT !.biomes = apply_biomes(rm.biomes),
                        !.edits = @ + 1, !.applies = @ + 1,
                        !.road_before = IF rm.applies = 0 THEN RoadRatio(rm) ELSE @,
                        !.msg = "apply_biomes"]
    /\ UNCHANGED <<buildVars, wormVars, rollVars, laterVars>>

\* room.reset_biomes()
ResetBiomesStep ==
    /\ rm.typeclass # "none"
    /\ rm.edits < MaxEdits
    /\ rm' = [rm EXCEPT !.biomes = reset_biomes(rm.biomes),
                        !.edits = @ + 1, !.applies = @ + 1,
                        !.road_before = IF rm.applies = 0 THEN RoadRatio(rm) ELSE @,
                        !.msg = "reset_biomes"]
    /\ UNCHANGED <<buildVars, wormVars, rollVars, laterVars>>

InitRoom ==
    /\ rm = NoRoom
    /\ IdleBuild
    /\ wrooms = << >> /\ wexits = {} /\ worm = IdleWorm
    /\ roll = IdleRoll
    /\ IdleLater

NextRoom ==
    \/ CreateRoomStep
    \/ UpdateHereStep
    \/ TraitsEditStep
    \/ BiomesEditStep
    \/ ApplyBiomesStep
    \/ ResetBiomesStep

SpecRoom == InitRoom /\ [][NextRoom]_vars

\* C6: whatever biomes a room held, after apply_biomes or reset_biomes, once
\* or several times in a row, it holds exactly the 15 catalog keys, each
\* with ratio 0
C6_ApplyBiomesIdempotent ==
    rm.msg \in {"apply_biomes", "reset_biomes"} =>
        /\ DOMAIN rm.biomes = DOMAIN BIOME_DATA
        /\ Cardinality(DOMAIN rm.biomes) = 15
        /\ \A k \in DOMAIN rm.biomes : rm.biomes[k] = 0

\* A room whose road ratio had been edited to 0.5 has had its biomes applied
\* twice in a row
C6_Witness ==
    /\ rm.msg = "apply_biomes"
    /\ rm.applies = 2
    /\ rm.road_before = 50
    /\ rm.biomes = BIOME_DATA

\* C9: in every state of an outdoor Room the maximum of its encumbrance
\* counter is the square of its size: 100,000,000 at creation, the new size
\* squared after each size edit of the traits sub-menu
C9_EncCeilingIsSizeSquared ==
    (rm.typeclass = "Room" /\ rm.hasTraits) =>
        /\ rm.enc_max = rm.size * rm.size
        /\ (rm.msg = "created" => rm.enc_max = 100000000)

\* C10: creating an IndoorRoom completes, with max tracked footprints 3,
\* size 25, elevation and ruggedness 0 and the outdoor flag false
C10_IndoorRoomCreated ==
    (rm.typeclass = "IndoorRoom" /\ rm.edits = 0) =>
        /\ rm.msg = "created"
        /\ rm.hasTraits /\ rm.hasInfo
        /\ rm.trackmax = 3 /\ rm.size = 25
        /\ rm.elev = 0 /\ rm.rot = 0
        /\ rm.outdoor = FALSE

\* The biome of the room a catalog name typed in the biomes sub-menu names
BiomeNamed(name) ==
    CASE name = "Forest" -> "forest"
      [] name = "Plains" -> "plains"
      [] OTHER -> name

\* C24: after `<biome name> <value>` in the biomes sub-menu with a
\* recognized name, the named biome of the room holds the value and every
\* other biome holds what it held; with an unrecognized name every biome
\* holds what it held.
C24_BiomeInputSetsNamedBiome ==
    (rm.typeclass # "none" /\ rm.msg = "Trying to set" /\ Len(rm.biome_input) = 2) =>
      IF rm.biome_input[1] \in MAP_SYMBOLS
      THEN /\ DOMAIN rm.biomes = DOMAIN rm.biomes_before
           /\ \A k \in DOMAIN rm.biomes :
                rm.biomes[k] = IF k = BiomeNamed(rm.biome_input[1])
                               THEN PyFloat(rm.biome_input[2]).v
                               ELSE rm.biomes_before[k]
      ELSE rm.biomes = rm.biomes_before

(***************************************************************************)
(* return_a_roll over a stubbed sampler.  total_roll is a sum of draw / i, *)
(* kept exactly as a numerator over the common denominator RollDenom.      *)
(***************************************************************************)

\* Draws one roll may take; the loop is cut after this many
MaxDraws == 3

RECURSIVE Factorial(_)
Factorial(n) == IF n <= 1 THEN 1 ELSE n * Factorial(n - 1)

\* A common multiple of every num_of_crits a roll can reach
RollDenom == Factorial(MaxDraws)

\* The means rolled against, and what the sampler may return
RollNumbers == {10, 100}
RollDraws == {-30, 0, 1, 7, 8, 10, 12, 13, 50, 79, 80, 100, 120, 121, 130}
RollShapes == {"normal", "very steep", "cubic"}
SkillCounts == {0, 1, 3}

\* this_roll > number * 1.2 and this_roll < number * .8, exact for the means
\* in RollNumbers
AboveCrit_atleast(this_roll, number) == 10 * this_roll >= 12 * number
AboveCrit(this_roll, number) == 10 * this_roll > 12 * number
BelowFail(this_roll, number) == 10 * this_roll < 8 * number

\* total_roll += this_roll without the division by num_of_crits
AddToTotal_undivided(total, this_roll, num_of_crits) ==
    total + this_roll * RollDenom

\* total_roll += this_roll / num_of_crits
AddToTotal(total, this_roll, num_of_crits) ==
    total + this_roll * (RollDenom \div num_of_crits)

\* int(total_roll): truncation toward zero
PyIntOfTotal(total) ==
    IF total >= 0 THEN total \div RollDenom ELSE -((-total) \div RollDenom)

\* learned_something(skill_list): the loop body names ability_skill_or_power,
\* which is not defined, so the first pass raises NameError; the handler
\* logs a trace and returns.  No learn counter is written.
learned_something(r) ==
    [r EXCEPT !.learn_calls = @ + 1,
              !.traces = IF Len(r.learn) > 0 THEN @ + 1 ELSE @]

IdleRollFull ==
    [pc |-> "idle", number |-> 0, draws |-> << >>, total_roll |-> 0,
     num_of_crits |-> 1, learn |-> << >>, learn_calls |-> 0, traces |-> 0,
     result |-> 0]

\* return_a_roll(number, dist_shape, *skills) up to the loop: a dist_shape
\* outside the five known ones leaves scale unbound, and the first draw
\* raises
RollStep ==
    /\ roll.pc = "idle"
    /\ \E number \in RollNumbers, dist_shape \in RollShapes, n \in SkillCounts :
         roll' = [IdleRollFull EXCEPT
                    !.pc = IF dist_shape \in {"normal", "flat", "very flat",
                                              "steep", "very steep"}
                           THEN "rolling" ELSE "raised",
                    !.number = number,
                    !.learn = [i \in 1 .. n |-> 0]]
    /\ UNCHANGED <<buildVars, wormVars, roomVars, laterVars>>

\* One pass of the while loop, this_roll being what the sampler returned
DrawStep ==
    /\ roll.pc = "rolling"
    /\ \E this_roll \in RollDraws :
         /\ Len(roll.draws) + 1 = MaxDraws => ~AboveCrit(this_roll, roll.number)
         /\ LET r1 == [roll EXCEPT
                         !.draws = Append(@, this_roll),
                         !.total_roll = AddToTotal(@, this_roll, roll.num_of_crits)]
            IN  IF ~AboveCrit(this_roll, roll.number)
                THEN IF r1.total_roll < RollDenom
                     THEN roll' = [learned_something(r1) EXCEPT
                                     !.pc = "returned", !.result = 1]
                     ELSE IF BelowFail(this_roll, roll.number)
                     THEN roll' = [learned_something(r1) EXCEPT
                                     !.pc = "returned",
                                     !.result = PyIntOfTotal(r1.total_roll)]
                     ELSE roll' = [r1 EXCEPT
                                     !.pc = "returned",
                                     !.result = PyIntOfTotal(r1.total_roll)]
                ELSE roll' = [learned_something(r1) EXCEPT !.num_of_crits = @ + 1]
    /\ UNCHANGED <<buildVars, wormVars, roomVars, laterVars>>

InitRoll ==
    /\ roll = IdleRollFull
    /\ IdleBuild
    /\ wrooms = << >> /\ wexits = {} /\ worm = IdleWorm
    /\ rm = IdleRoom
    /\ IdleLater

NextRoll == RollStep \/ DrawStep

SpecRoll == InitRoll /\ [][NextRoll]_vars

\* The sum of draws[i] / i over RollDenom
RECURSIVE SumOfDraws(_)
SumOfDraws(draws) ==
    IF draws = << >> THEN 0
    ELSE SumOfDraws(SubSeq(draws, 1, Len(draws) - 1))
           + (draws[Len(draws)] * RollDenom) \div Len(draws)

C8_LearnCountersGrow ==
    roll.pc = "returned" =>
        \A i \in DOMAIN roll.learn : roll.learn[i] = roll.learn_calls

\* C30: a roll that returns gives an integer of at least 1, whatever the
\* draws, negative and zero ones included; while it runs and when it
\* returns num_of_crits is 1 plus the number of draws so far that were above
\* 1.2 * number.
C30_RollAtLeastOne ==
    roll.pc \in {"rolling", "returned"} =>
      /\ roll.number > 0
      /\ roll.pc = "returned" => (roll.result \in Int /\ roll.result >= 1)
      /\ roll.num_of_crits =
           1 + Cardinality({i \in 1 .. Len(roll.draws) :
                              10 * roll.draws[i] > 12 * roll.number})

\* A roll against 10 drew 13, a critical success, then -30: the total is
\* below zero and the roll returns 1
C30_Witness ==
    /\ roll.pc = "returned"
    /\ roll.number = 10
    /\ roll.draws = <<13, -30>>
    /\ roll.num_of_crits = 2
    /\ roll.result = 1

(***************************************************************************)
(* Items and their holders: the move gate, get, drop and break.            *)
(* Masses and encumbrance are in tenths of a kilogram.                     *)
(***************************************************************************)

\* Items in the scene
NItems == 2

\* Break actions in one run
MaxBreaks == 2

ItemIds == 1 .. NItems

RECURSIVE MassOf(_, _)
\* The mass of the items of ids that are where
MassOf(items, ids) ==
    IF ids = {} THEN 0
    ELSE LET i == CHOOSE x \in ids : TRUE
         IN  items[i].mass + MassOf(items, ids \ {i})

HeldBy(items, where) == {i \in DOMAIN items : items[i].loc = where}

\* holder.calculate_encumberance(): the encumbrance becomes the mass held
calculate_encumberance(holder, items) ==
    [holder EXCEPT !.enc = MassOf(items, HeldBy(items, "holder")),
                   !.calc = @ + 1]

\* The holder at the start of an operation: calc counts the recalculations
\* of the operation under way
Fresh(holder) == [holder EXCEPT !.calc = 0]

\* The room items are dropped into, as far as the move gate reads it
TheRoom == [kind |-> "Room", enc |-> 0, enc_max |-> 100000000]

\* Item.at_before_move(getter).  The too-heavy branch tests
\* utils.inherits_from(obj, ...) where obj is not defined: the hook raises
\* NameError before any message is sent or False is returned.
at_before_move(item, getter) ==
    IF getter.enc + item.mass > getter.enc_max
    THEN [result |-> "NameError", msg |-> FALSE, recalc |-> FALSE]
    ELSE [result |-> "True", msg |-> FALSE, recalc |-> TRUE]

\* Equippable.at_drop without the membership test
at_drop_always(item, id, holder, items) ==
    LET h1 == calculate_encumberance(holder, items)
    IN  IF item.typeclass = "Equippable"
        THEN [holder |-> [h1 EXCEPT !.equip = @ \ {id}], removes |-> 1]
        ELSE [holder |-> h1, removes |-> 0]

\* Item.at_drop, and Equippable.at_drop on top of it: the dropper's
\* encumbrance is recalculated; an item in dropper.equip is taken out of it
\* and its at_remove hook runs
at_drop(item, id, holder, items) ==
    LET h1 == calculate_encumberance(holder, items)
    IN  IF item.typeclass = "Equippable" /\ id \in h1.equip
        THEN [holder |-> [h1 EXCEPT !.equip = @ \ {id}], removes |-> 1]
        ELSE [holder |-> h1, removes |-> 0]

NoItemOp ==
    [op |-> "none", item |-> 0, gate |-> "none", moved |-> FALSE,
     heavy |-> FALSE, msg |-> FALSE, was_equipped |-> FALSE,
     equip_before |-> {}, removes |-> 0, calc_before |-> 0,
     announced |-> FALSE, trash_rows |-> 0]

\* The scenes: a holder with a ceiling, items on the holder or on the floor,
\* some of the held Equippables equipped, the encumbrance that of the load
ItemScenes ==
    {[pc |-> "ready",
      holder |-> [kind |-> k, enc |-> MassOf(items, HeldBy(items, "holder")),
                  enc_max |-> m, equip |-> eq, calc |-> 0],
      items |-> items, junk |-> 0, breaks |-> 0, last |-> NoItemOp] :
        k \in {"Character", "NPC", "Container"}, m \in {10, 13},
        items \in [ItemIds -> [typeclass : {"Item", "Equippable"},
                               mass : {5, 8}, loc : {"holder", "room"}]],
        eq \in SUBSET ItemIds}

InitItem ==
    /\ it \in ItemScenes
    /\ it.holder.enc <= it.holder.enc_max
    /\ \A i \in it.holder.equip :
         it.items[i].typeclass = "Equippable" /\ it.items[i].loc = "holder"
    /\ IdleBuild
    /\ wrooms = << >> /\ wexits = {} /\ worm = IdleWorm
    /\ rm = IdleRoom
    /\ roll = IdleRoll
    /\ adj = IdleAdj
    /\ mworld = IdleMap /\ mp = IdleMap

\* An item on the floor is moved to the holder: move_to runs the gate and
\* refuses when the gate returns False or raises; a character's or NPC's
\* get command then runs at_get
GetStep ==
    /\ it.pc = "ready"
    /\ \E i \in HeldBy(it.items, "room") :
         LET item == it.items[i]
             gate == at_before_move(item, it.holder)
             h1 == IF gate.recalc
                   THEN calculate_encumberance(Fresh(it.holder), it.items)
                   ELSE Fresh(it.holder)
             moved == gate.result = "True"
             items1 == IF moved THEN [it.items EXCEPT ![i].loc = "holder"]
                       ELSE it.items
             h2 == IF moved /\ it.holder.kind \in {"Character", "NPC"}
                   THEN calculate_encumberance(h1, items1) ELSE h1
         IN  it' = [it EXCEPT
                      !.holder = h2, !.items = items1,
                      !.last = [NoItemOp EXCEPT
                                  !.op = "get", !.item = i,
                                  !.gate = gate.result, !.moved = moved,
                                  !.heavy = it.holder.enc + item.mass > it.holder.enc_max,
                                  !.msg = gate.msg,
                                  !.calc_before = 0]]
    /\ UNCHANGED <<buildVars, wormVars, roomVars, rollVars, adjVars, mapVars>>

\* A held item is dropped: move_to the room through the gate, then at_drop
DropStep ==
    /\ it.pc = "ready"
    /\ \E i \in HeldBy(it.items, "holder") :
         LET item == it.items[i]
             gate == at_before_move(item, TheRoom)
             moved == gate.result = "True"
             items1 == IF moved THEN [it.items EXCEPT ![i].loc = "room"]
                       ELSE it.items
             res == at_drop(item, i, Fresh(it.holder), items1)
         IN  it' = [it EXCEPT
                      !.holder = IF moved THEN res.holder ELSE Fresh(@),
                      !.items = items1,
                      !.last = [NoItemOp EXCEPT
                                  !.op = "drop", !.item = i,
                                  !.gate = gate.result, !.moved = moved,
                                  !.was_equipped = i \in it.holder.equip,
                                  !.equip_before = it.holder.equip,
                                  !.removes = IF moved THEN res.removes ELSE 0,
                                  !.calc_before = 0]]
    /\ UNCHANGED <<buildVars, wormVars, roomVars, rollVars, adjVars, mapVars>>

\* Item.at_break(): the announcement is made, then the Trash remnant is
\* asked for with self.material.all_dict as parent_materials.  Nothing under
\* Item defines material, create_object takes no parent_materials, and
\* Trash.at_object_creation demands an argument the creation hook is never
\* given and reads the undefined name key: the call raises, either before a
\* row is stored (row = 0) or from the creation hook after the bare row is
\* stored (row = 1).  self.delete() is not reached.
at_break(items, id, row) ==
    [items |-> items, announced |-> TRUE, trash_rows |-> row,
     raised |-> TRUE]

\* An item breaks
BreakStep ==
    /\ it.pc = "ready"
    /\ it.breaks < MaxBreaks
    /\ \E i \in DOMAIN it.items, row \in {0, 1} :
         LET res == at_break(it.items, i, row)
         IN  it' = [it EXCEPT
                      !.holder = Fresh(@),
                      !.items = res.items,
                      !.junk = @ + res.trash_rows,
                      !.breaks = @ + 1,
                      !.last = [NoItemOp EXCEPT
                                  !.op = "break", !.item = i,
                                  !.gate = IF res.raised THEN "raised" ELSE "done",
                                  !.announced = res.announced,
                                  !.trash_rows = res.trash_rows,
                                  !.calc_before = 0]]
    /\ UNCHANGED <<buildVars, wormVars, roomVars, rollVars, adjVars, mapVars>>

NextItem ==
    \/ GetStep
    \/ DropStep
    \/ BreakStep

SpecItem == InitItem /\ [][NextItem]_vars

\* C11: dropping an Equippable that is equipped takes it out of the
\* dropper's equipped collection and runs its remove hook exactly once;
\* dropping one that is not equipped leaves the collection as it was and
\* does not run the hook; either way the dropper's encumbrance has been
\* recalculated to the load that is left.
C11_EquippableDrop ==
    (it.pc = "ready" /\ it.last.op = "drop" /\ it.last.moved
        /\ it.items[it.last.item].typeclass = "Equippable") =>
      /\ it.last.was_equipped =>
           (it.holder.equip = it.last.equip_before \ {it.last.item}
              /\ it.last.removes = 1)
      /\ ~it.last.was_equipped =>
           (it.holder.equip = it.last.equip_before /\ it.last.removes = 0)
      /\ it.holder.calc > it.last.calc_before
      /\ it.holder.enc = MassOf(it.items, HeldBy(it.items, "holder"))

C11_Witness ==
    /\ it.pc = "ready" /\ it.last.op = "drop" /\ it.last.moved
    /\ it.items[it.last.item].typeclass = "Equippable"
    /\ it.last.was_equipped
    /\ it.last.removes = 1
    /\ it.holder.equip # {}

\* C13: the move gate returns False whenever the holder's encumbrance plus
\* the item's mass is above the holder's ceiling, with a too-heavy message
\* to a character or NPC and silently for another container, and returns
\* True otherwise.
C13_GateRefusesTooHeavy ==
    (it.pc = "ready" /\ it.last.op = "get") =>
      /\ it.last.heavy =>
           (it.last.gate = "False"
              /\ (it.last.msg <=> it.holder.kind \in {"Character", "NPC"}))
      /\ ~it.last.heavy => it.last.gate = "True"

\* C20: after a break the room has been told, the original item no longer
\* exists and exactly one Trash remnant has been made where it was.
C20_BreakReplacesItem ==
    (it.pc = "ready" /\ it.last.op = "break") =>
      /\ it.last.announced
      /\ it.last.item \notin DOMAIN it.items
      /\ it.last.trash_rows = 1

(***************************************************************************)
(* Adjacency by coordinates in the room building menu.                     *)
(***************************************************************************)

\* Longest nearby-room list
MaxNearby == 2

\* The room being edited is #1, #2 and #3 are other rooms, #4 is an
\* identifier caller.search finds nothing for
AdjRoomId == 1
AdjOtherIds == {2, 3}
AdjNearbyIds == {1, 2, 3, 4}

AdjOrigins == {<<0, 0>>, <<-3, 7>>}
AdjExitNames == {"north", "southwest", "out"}

SeqsUpTo(S, n) == UNION {[1 .. k -> S] : k \in 0 .. n}

\* find_adjacent_room_ids with the east and west labels exchanged
AdjacentLabel_eastwest(rx, ry, cx, cy) ==
    IF cx = rx
    THEN (IF cy = ry + 1 THEN <<"north">> ELSE << >>)
           \o (IF cy = ry - 1 THEN <<"south">> ELSE << >>)
    ELSE IF cy = ry
    THEN (IF cx = rx + 1 THEN <<"west">> ELSE << >>)
           \o (IF cx = rx - 1 THEN <<"east">> ELSE << >>)
    ELSE IF cy = ry + 1 /\ cx = rx + 1 THEN <<"northeast">>
    ELSE IF cy = ry + 1 /\ cx = rx - 1 THEN <<"northwest">>
    ELSE IF cy = ry - 1 /\ cx = rx + 1 THEN <<"southeast">>
    ELSE IF cy = ry - 1 /\ cx = rx - 1 THEN <<"southwest">>
    ELSE << >>

\* The labels find_adjacent_room_ids appends for one candidate at (cx, cy)
\* when the room is at (rx, ry): the if / elif chain of the loop body
AdjacentLabel(rx, ry, cx, cy) ==
    IF cx = rx
    THEN (IF cy = ry + 1 THEN <<"north">> ELSE << >>)
           \o (IF cy = ry - 1 THEN <<"south">> ELSE << >>)
    ELSE IF cy = ry
    THEN (IF cx = rx + 1 THEN <<"east">> ELSE << >>)
           \o (IF cx = rx - 1 THEN <<"west">> ELSE << >>)
    ELSE IF cy = ry + 1 /\ cx = rx + 1 THEN <<"northeast">>
    ELSE IF cy = ry + 1 /\ cx = rx - 1 THEN <<"northwest">>
    ELSE IF cy = ry - 1 /\ cx = rx + 1 THEN <<"southeast">>
    ELSE IF cy = ry - 1 /\ cx = rx - 1 THEN <<"southwest">>
    ELSE << >>

RECURSIVE AdjacentLoop(_, _, _)
\* The loop of find_adjacent_room_ids over room.ndb.nearby_rooms
AdjacentLoop(room, found, nearby) ==
    IF nearby = << >> THEN << >>
    ELSE LET id == Head(nearby)
             here == IF id \in DOMAIN found
                     THEN [i \in 1 .. Len(AdjacentLabel(room.x, room.y, found[id].x, found[id].y)) |->
                             <<id, AdjacentLabel(room.x, room.y, found[id].x, found[id].y)[i]>>]
                     ELSE << >>
         IN  here \o AdjacentLoop(room, found, Tail(nearby))

\* find_adjacent_room_ids(room, caller): None for an empty or missing list
find_adjacent_room_ids(room, found, nearby) ==
    IF nearby # << >>
    THEN [none |-> FALSE, list |-> AdjacentLoop(room, found, nearby)]
    ELSE [none |-> TRUE, list |-> << >>]

\* check_adjacent_rooms_for_missing_exits(room, adjacent_rooms)
check_adjacent_rooms_for_missing_exits(room, adjacent_rooms) ==
    SelectSeq(adjacent_rooms, LAMBDA p : p[2] \notin room.exits)

InitAdjacent ==
    /\ \E o \in AdjOrigins, ex \in SUBSET AdjExitNames,
          d2 \in (-2 .. 2) \X (-2 .. 2), d3 \in (-1 .. 1) \X (-1 .. 1),
          nearby \in SeqsUpTo(AdjNearbyIds, MaxNearby) :
         adj = [pc |-> "menu",
                room |-> [id |-> AdjRoomId, x |-> o[1], y |-> o[2], exits |-> ex],
                found |-> [i \in {AdjRoomId} \cup AdjOtherIds |->
                             IF i = AdjRoomId THEN [x |-> o[1], y |-> o[2]]
                             ELSE IF i = 2 THEN [x |-> o[1] + d2[1], y |-> o[2] + d2[2]]
                             ELSE [x |-> o[1] + d3[1], y |-> o[2] + d3[2]]],
                nearby |-> nearby,
                adjacent_rooms |-> [none |-> TRUE, list |-> << >>],
                missing_exits_to |-> << >>]
    /\ IdleBuild
    /\ wrooms = << >> /\ wexits = {} /\ worm = IdleWorm
    /\ rm = IdleRoom
    /\ roll = IdleRoll
    /\ mworld = IdleMap /\ mp = IdleMap
    /\ it = IdleItem

\* The exits page of the menu: the adjacent rooms are computed and, when
\* there are any, the candidates for missing exits
TextExitsStep ==
    /\ adj.pc = "menu"
    /\ LET adjacent_rooms == find_adjacent_room_ids(adj.room, adj.found, adj.nearby)
       IN  adj' = [adj EXCEPT
                     !.pc = "shown",
                     !.adjacent_rooms = adjacent_rooms,
                     !.missing_exits_to =
                        IF adjacent_rooms.list # << >>
                        THEN check_adjacent_rooms_for_missing_exits(adj.room, adjacent_rooms.list)
                        ELSE << >>]
    /\ UNCHANGED <<buildVars, wormVars, roomVars, rollVars, mapVars, itemVars>>

NextAdjacent == TextExitsStep

SpecAdjacent == InitAdjacent /\ [][NextAdjacent]_vars

\* The unit offset of a compass direction: north is +y, east is +x
AdjUnit(d) ==
    CASE d = "north" -> <<0, 1>>
      [] d = "south" -> <<0, -1>>
      [] d = "east" -> <<1, 0>>
      [] d = "west" -> <<-1, 0>>
      [] d = "northeast" -> <<1, 1>>
      [] d = "northwest" -> <<-1, 1>>
      [] d = "southeast" -> <<1, -1>>
      [] d = "southwest" -> <<-1, -1>>

\* The labelled rooms the coordinates call for
AdjExpected ==
    {p \in (Range(adj.nearby) \cap DOMAIN adj.found) \X CompassNames :
        /\ adj.found[p[1]].x = adj.room.x + AdjUnit(p[2])[1]
        /\ adj.found[p[1]].y = adj.room.y + AdjUnit(p[2])[2]}

\* C12: a room of the nearby list is labelled d exactly when it lies at the
\* room's coordinates plus the unit offset of compass direction d, and the
\* candidates for missing exits are exactly the labelled rooms whose label
\* is not the name of an exit of the room.
C12_AdjacentByCoordinates ==
    adj.pc = "shown" =>
      /\ Range(adj.adjacent_rooms.list) = AdjExpected
      /\ Range(adj.missing_exits_to) = {p \in AdjExpected : p[2] \notin adj.room.exits}

C12_Witness ==
    /\ adj.pc = "shown"
    /\ adj.room.x = 0 /\ adj.room.y = 0
    /\ adj.nearby = <<2>>
    /\ adj.found[2] = [x |-> 0, y |-> 1]
    /\ "north" \notin adj.room.exits
    /\ adj.missing_exits_to = << <<2, "north">> >>

(***************************************************************************)
(* connect_to_<id> in the exits page of the room building menu.            *)
(***************************************************************************)

\* Most connect_to_ inputs typed into one menu
MaxConnects == 2

\* get_return_dir_string(cardinal): 'north;n,south;s' as the exit there and
\* the exit back, each a name and an alias; None is the empty sequence
get_return_dir_string(cardinal) ==
    IF cardinal \in {"north", "south", "east", "west", "northwest", "northeast",
                     "southeast", "southwest"}
    THEN CASE cardinal = "north" -> << <<"north", "n">>, <<"south", "s">> >>
           [] cardinal = "south" -> << <<"south", "s">>, <<"north", "n">> >>
           [] cardinal = "east" -> << <<"east", "e">>, <<"west", "w">> >>
           [] cardinal = "west" -> << <<"west", "w">>, <<"east", "e">> >>
           [] cardinal = "northwest" -> << <<"northwest", "nw">>, <<"southeast", "se">> >>
           [] cardinal = "southeast" -> << <<"southeast", "se">>, <<"northwest", "nw">> >>
           [] cardinal = "northeast" -> << <<"northeast", "ne">>, <<"southwest", "sw">> >>
           [] cardinal = "southwest" -> << <<"southwest", "sw">>, <<"northeast", "ne">> >>
    ELSE << >>

\* One exit made by the open command: an exit of that name already in the
\* location is pointed at the destination, otherwise a new exit is created
ConnCreateExit(world, location, exit_name, destination) ==
    IF \E e \in world : e.src = location /\ e.name = exit_name[1]
    THEN {IF e.src = location /\ e.name = exit_name[1]
          THEN [e EXCEPT !.dst = destination] ELSE e : e \in world}
    ELSE world \cup {[src |-> location, name |-> exit_name[1],
                      alias |-> exit_name[2], dst |-> destination]}

\* caller.execute_cmd(f"open {direction_string} = #{room_id}"): the exit
\* there leaves the room the caller stands in, the exit back returns to it
ConnOpen(world, location, direction_string, room_id) ==
    ConnCreateExit(ConnCreateExit(world, location, direction_string[1], room_id),
                   room_id, direction_string[2], location)

RECURSIVE ConnectLoop(_, _, _, _)
\* The loop of nomatch_exits over missing_exits_to
ConnectLoop(world, location, missing_exits_to, cmd_id) ==
    IF missing_exits_to = << >> THEN world
    ELSE LET room_id == Head(missing_exits_to)[1]
             cardinal == Head(missing_exits_to)[2]
         IN  ConnectLoop(IF room_id = cmd_id
                         THEN ConnOpen(world, location,
                                       get_return_dir_string(cardinal), room_id)
                         ELSE world,
                         location, Tail(missing_exits_to), cmd_id)

\* The edited room with the keys of its exits
ConnRoom(a) ==
    [id |-> a.room.id, x |-> a.room.x, y |-> a.room.y,
     exits |-> {e.name : e \in {f \in a.exits : f.src = a.room.id}}]

\* The candidates for missing exits of the edited room
ConnMissing(a) ==
    LET adjacent_rooms == find_adjacent_room_ids(ConnRoom(a), a.found, a.nearby)
    IN  IF adjacent_rooms.list # << >>
        THEN check_adjacent_rooms_for_missing_exits(ConnRoom(a), adjacent_rooms.list)
        ELSE << >>

\* @sculpt searches globally, so the builder stands in the edited room #1
\* or in another room, #3; some exits exist before the menu is opened
InitConnect ==
    /\ \E loc \in {1, 3},
          d2 \in {<<0, 1>>, <<1, 1>>, <<-1, 0>>, <<2, 0>>},
          d3 \in {<<0, 1>>, <<-1, -1>>},
          nearby \in SeqsUpTo(AdjNearbyIds, MaxNearby),
          ex \in SUBSET {[src |-> 1, name |-> "north", alias |-> "n", dst |-> 3],
                         [src |-> 2, name |-> "south", alias |-> "s", dst |-> 3],
                         [src |-> 3, name |-> "north", alias |-> "n", dst |-> 2]} :
         adj = [pc |-> "connect",
                room |-> [id |-> AdjRoomId, x |-> 0, y |-> 0],
                location |-> loc,
                found |-> [i \in {AdjRoomId} \cup AdjOtherIds |->
                             IF i = AdjRoomId THEN [x |-> 0, y |-> 0]
                             ELSE IF i = 2 THEN [x |-> d2[1], y |-> d2[2]]
                             ELSE [x |-> d3[1], y |-> d3[2]]],
                nearby |-> nearby,
                exits |-> ex,
                inputs |-> 0,
                last |-> [op |-> "none", id |-> 0, missing |-> << >>,
                         before |-> {}]]
    /\ IdleBuild
    /\ wrooms = << >> /\ wexits = {} /\ worm = IdleWorm
    /\ rm = IdleRoom
    /\ roll = IdleRoll
    /\ mworld = IdleMap /\ mp = IdleMap
    /\ it = IdleItem

\* nomatch_exits on a text that starts with connect_to_
ConnectStep ==
    /\ adj.pc = "connect"
    /\ adj.inputs < MaxConnects
    /\ \E cmd_id \in AdjNearbyIds :
         LET missing_exits_to == ConnMissing(adj)
         IN  adj' = [adj EXCEPT
                       !.exits = ConnectLoop(adj.exits, adj.location,
                                             missing_exits_to, cmd_id),
                       !.inputs = @ + 1,
                       !.last = [op |-> "connect", id |-> cmd_id,
                                 missing |-> missing_exits_to,
                                 before |-> adj.exits]]
    /\ UNCHANGED <<buildVars, wormVars, roomVars, rollVars, mapVars, itemVars>>

NextConnect == ConnectStep

SpecConnect == InitConnect /\ [][NextConnect]_vars

\* The geometric opposite of a compass direction
GeometricOpposite(d) ==
    CASE d = "north" -> "south"
      [] d = "south" -> "north"
      [] d = "east" -> "west"
      [] d = "west" -> "east"
      [] d = "northeast" -> "southwest"
      [] d = "southwest" -> "northeast"
      [] d = "northwest" -> "southeast"
      [] d = "southeast" -> "northwest"

\* C26: connect_to_<id> for a candidate in direction d leaves an exit d from
\* the edited room to that room and an exit named with the opposite of d
\* back; the room is then no longer a candidate; and connect_to_<id> for a
\* room that is not a candidate leaves the exits as they were.
C26_ConnectOpensPair ==
    (adj.pc = "connect" /\ adj.last.op = "connect") =>
      LET id == adj.last.id
          dirs == {p[2] : p \in {q \in Range(adj.last.missing) : q[1] = id}}
      IN  IF dirs # {}
          THEN /\ \A d \in dirs :
                    /\ \E e \in adj.exits :
                         e.src = adj.room.id /\ e.name = d /\ e.dst = id
                    /\ \E e \in adj.exits :
                         e.src = id /\ e.name = GeometricOpposite(d) /\ e.dst = adj.room.id
               /\ id \notin {p[1] : p \in Range(ConnMissing(adj))}
          ELSE adj.exits = adj.last.before

(***************************************************************************)
(* The overhead map: Map.__init__ walks the rooms around the observer and  *)
(* draws them on the 21 x 21 grid.  A cell is <<row, column>>.             *)
(***************************************************************************)

\* Rooms of a freely connected area, and exits among them
NMapRooms == 3
MaxMapExits == 2

\* Rooms of the longest corridor
MaxCorridor == 12

\* MAPPABLE_ROOM_COORDS with the cell [4,4] added
MAPPABLE_ROOM_COORDS_wide ==
    {<<10,10>>, <<8,10>>, <<6,10>>, <<4,10>>, <<2,10>>, <<0,10>>, <<12,10>>,
     <<14,10>>, <<16,10>>, <<18,10>>, <<20,10>>, <<10,8>>, <<10,6>>, <<10,4>>,
     <<10,2>>, <<10,0>>, <<10,12>>, <<10,14>>, <<10,16>>, <<10,18>>, <<10,20>>,
     <<8,2>>, <<12,2>>, <<6,4>>, <<8,4>>, <<12,4>>, <<14,4>>, <<4,6>>, <<6,6>>,
     <<8,6>>, <<12,6>>, <<14,6>>, <<16,6>>, <<2,8>>, <<4,8>>, <<6,8>>, <<8,8>>,
     <<12,8>>, <<14,8>>, <<16,8>>, <<18,8>>, <<8,18>>, <<12,18>>, <<6,16>>,
     <<8,16>>, <<12,16>>, <<14,16>>, <<4,14>>, <<6,14>>, <<8,14>>, <<12,14>>,
     <<14,14>>, <<16,14>>, <<2,12>>, <<4,12>>, <<6,12>>, <<8,12>>, <<12,12>>,
     <<14,12>>, <<16,12>>, <<18,12>>, <<4,4>>}

MAPPABLE_ROOM_COORDS ==
    {<<10,10>>, <<8,10>>, <<6,10>>, <<4,10>>, <<2,10>>, <<0,10>>, <<12,10>>,
     <<14,10>>, <<16,10>>, <<18,10>>, <<20,10>>, <<10,8>>, <<10,6>>, <<10,4>>,
     <<10,2>>, <<10,0>>, <<10,12>>, <<10,14>>, <<10,16>>, <<10,18>>, <<10,20>>,
     <<8,2>>, <<12,2>>, <<6,4>>, <<8,4>>, <<12,4>>, <<14,4>>, <<4,6>>, <<6,6>>,
     <<8,6>>, <<12,6>>, <<14,6>>, <<16,6>>, <<2,8>>, <<4,8>>, <<6,8>>, <<8,8>>,
     <<12,8>>, <<14,8>>, <<16,8>>, <<18,8>>, <<8,18>>, <<12,18>>, <<6,16>>,
     <<8,16>>, <<12,16>>, <<14,16>>, <<4,14>>, <<6,14>>, <<8,14>>, <<12,14>>,
     <<14,14>>, <<16,14>>, <<2,12>>, <<4,12>>, <<6,12>>, <<8,12>>, <<12,12>>,
     <<14,12>>, <<16,12>>, <<18,12>>}

\* Map.__init__(caller, max_width=21, max_length=21)
max_width == 21
max_length == 21

\* (min(max_width, max_length) - 1) / 2
max_distance == ((IF max_width < max_length THEN max_width ELSE max_length) - 1) \div 2

\* Map.median(num), truncated by int(): the middle of 0 .. num-1
MapMedian(num) == (num - 1) \div 2

\* Map.update_pos: the pointer moves two cells along the exit
Map_update_pos(pos, exit_name) ==
    CASE exit_name = "east" -> <<pos[1], pos[2] + 2>>
      [] exit_name = "west" -> <<pos[1], pos[2] - 2>>
      [] exit_name = "north" -> <<pos[1] - 2, pos[2]>>
      [] exit_name = "south" -> <<pos[1] + 2, pos[2]>>
      [] exit_name = "northeast" -> <<pos[1] - 2, pos[2] + 2>>
      [] exit_name = "southeast" -> <<pos[1] + 2, pos[2] + 2>>
      [] exit_name = "northwest" -> <<pos[1] - 2, pos[2] - 2>>
      [] exit_name = "southwest" -> <<pos[1] + 2, pos[2] - 2>>
      [] OTHER -> pos

\* The value of a function that returns nothing
NoIndex == -1

\* get_elev_index with the lower band ending at -26
get_elev_index_shifted(elevation_diff) ==
    IF elevation_diff < -125 THEN 0
    ELSE IF -125 <= elevation_diff /\ elevation_diff < -26 THEN 1
    ELSE IF -26 <= elevation_diff /\ elevation_diff <= 25 THEN 2
    ELSE IF 25 <= elevation_diff /\ elevation_diff < 125 THEN 3
    ELSE IF elevation_diff > 125 THEN 4
    ELSE NoIndex

\* Map.get_elev_index, on the difference of the two elevations
get_elev_index(elevation_diff) ==
    IF elevation_diff < -125 THEN 0
    ELSE IF -125 <= elevation_diff /\ elevation_diff < -25 THEN 1
    ELSE IF -25 <= elevation_diff /\ elevation_diff <= 25 THEN 2
    ELSE IF 25 <= elevation_diff /\ elevation_diff < 125 THEN 3
    ELSE IF elevation_diff > 125 THEN 4
    ELSE NoIndex

\* The connector draw() asks for along an exit of a room at cell: the type
\* and the cell one step along the exit
ExitConnector(cell, exit_name) ==
    CASE exit_name = "east" -> [type |-> "horizontal", cell |-> <<cell[1], cell[2] + 1>>]
      [] exit_name = "west" -> [type |-> "horizontal", cell |-> <<cell[1], cell[2] - 1>>]
      [] exit_name = "north" -> [type |-> "vertical", cell |-> <<cell[1] - 1, cell[2]>>]
      [] exit_name = "south" -> [type |-> "vertical", cell |-> <<cell[1] + 1, cell[2]>>]
      [] exit_name = "northeast" -> [type |-> "nesw", cell |-> <<cell[1] - 1, cell[2] + 1>>]
      [] exit_name = "southwest" -> [type |-> "nesw", cell |-> <<cell[1] + 1, cell[2] - 1>>]
      [] exit_name = "northwest" -> [type |-> "nwse", cell |-> <<cell[1] - 1, cell[2] - 1>>]
      [] exit_name = "southeast" -> [type |-> "nwse", cell |-> <<cell[1] + 1, cell[2] + 1>>]

\* Map.draw_exit: only cells strictly inside the grid are written
draw_exit(ExitX, ExitY) ==
    0 < ExitX /\ ExitX < max_width /\ 0 < ExitY /\ ExitY < max_length

\* The connectors draw() writes for a room at cell: one for each exit with a
\* compass name, under the test that the room's own cell is mappable
DrawnConnectors(room, cell, room_exits) ==
    {[room |-> room, name |-> e.name,
      type |-> ExitConnector(cell, e.name).type,
      cell |-> ExitConnector(cell, e.name).cell] :
        e \in {x \in room_exits :
                 /\ x.name \in CompassNames
                 /\ cell \in MAPPABLE_ROOM_COORDS
                 /\ draw_exit(ExitConnector(cell, x.name).cell[1],
                              ExitConnector(cell, x.name).cell[2])}}

\* What a room shows the renderer.  Every map_symbol the code assigns is a
\* list of five glyphs; a room dug with samemap from a room without one has
\* none; an IndoorRoom whose creation hook failed has neither map_symbol nor
\* the info dictionary.
MapFaces ==
    {[map_symbol |-> "set5", info |-> "outdoor"],
     [map_symbol |-> "set5", info |-> "indoor"],
     [map_symbol |-> "none", info |-> "outdoor"],
     [map_symbol |-> "none", info |-> "missing"]}

PlainFace == [map_symbol |-> "set5", info |-> "outdoor"]

\* Differences of elevation around the thresholds of get_elev_index
MapElevations == {-200, -126, -125, -26, -25, 0, 25, 26, 124, 125, 126, 200}

MapExitsOf(r) == {e \in mworld.exits : e.location = r}

\* room.exits is a list: the exits come in the order of their creation,
\* which is the order or the reverse order of these ranks
ExitRank(e) ==
    100 * (CASE e.name = "north" -> 1 [] e.name = "south" -> 2
             [] e.name = "east" -> 3 [] e.name = "west" -> 4
             [] e.name = "northeast" -> 5 [] e.name = "southwest" -> 6
             [] e.name = "northwest" -> 7 [] e.name = "southeast" -> 8
             [] OTHER -> 9)
      + e.destination

\* The next exit of the loop over room.exits, todo being the exits left
NextExit(todo) ==
    CHOOSE e \in todo :
      \A x \in todo : mworld.order * ExitRank(e) <= mworld.order * ExitRank(x)

\* A Map object before draw_room_on_map is called
NewMap ==
    [pc |-> "init", curX |-> -1, curY |-> -1,
     grid |-> << >>, conn |-> {},
     worm_has_mapped |-> << >>, worm_has_mapped_room_ids |-> << >>,
     drawn |-> << >>, depth |-> << >>, elev_index |-> << >>, stack |-> << >>,
     nearby_rooms |-> [set |-> FALSE, ids |-> << >>]]

Glyph(kind, index) == [kind |-> kind, index |-> index]

\* Map.draw(room) for the observer's room: start_loc_on_grid, then the
\* records.  A room without the info dictionary makes start_loc_on_grid
\* raise.
DrawStart(m, room) ==
    LET x == MapMedian(max_width)
        y == MapMedian(max_length)
    IN  IF mworld.rooms[room].info = "missing"
        THEN [m EXCEPT !.pc = "raised", !.drawn = Append(@, room)]
        ELSE [m EXCEPT
                !.grid = (<<x, y>> :> Glyph(IF mworld.rooms[room].info = "outdoor"
                                            THEN "CHAR_OUTDOOR" ELSE "CHAR_INDOOR", 0)) @@ @,
                !.curX = x, !.curY = y,
                !.worm_has_mapped = (room :> <<x, y>>) @@ @,
                !.worm_has_mapped_room_ids = Append(@, room),
                !.drawn = Append(@, room)]

\* Map.draw(room) for any other room, the pointer being at (curX, curY)
DrawOther(m, room) ==
    LET cell == <<m.curX, m.curY>>
        face == mworld.rooms[room]
        m1 == [m EXCEPT !.worm_has_mapped = (room :> cell) @@ @,
                        !.drawn = Append(@, room)]
    IN  IF cell \notin MAPPABLE_ROOM_COORDS THEN m1
        ELSE LET m2 == [m1 EXCEPT !.conn = @ \cup DrawnConnectors(room, cell, MapExitsOf(room))]
             IN  IF face.map_symbol = "set5"
                 THEN LET m3 == [m2 EXCEPT !.worm_has_mapped_room_ids = Append(@, room)]
                          index == get_elev_index(face.elev - mworld.rooms[mworld.start].elev)
                      IN  IF index = NoIndex
                          THEN [m3 EXCEPT !.pc = "raised"]
                          ELSE [m3 EXCEPT !.grid = (cell :> Glyph("map_symbol", index)) @@ @,
                                          !.elev_index = (room :> index) @@ @]
                 ELSE IF face.info = "missing"
                      THEN [m2 EXCEPT !.pc = "raised"]
                      ELSE [m2 EXCEPT !.grid = (cell :> Glyph("unknown", 0)) @@ @]

\* Map.draw(room)
draw(m, room) ==
    IF room = mworld.start THEN DrawStart(m, room) ELSE DrawOther(m, room)

\* draw_room_on_map that returns one hop early
draw_room_on_map_short(m, room, distance) ==
    LET m1 == draw(m, room)
    IN  IF m1.pc = "raised" THEN m1
        ELSE [m1 EXCEPT
                !.pc = "walk",
                !.depth = (room :> (max_distance - distance)) @@ @,
                !.stack = Append(@, [room |-> room, distance |-> distance,
                                     todo |-> IF distance <= 1 THEN {}
                                              ELSE MapExitsOf(room)])]

\* draw_room_on_map(room, distance) up to its loop: the room is drawn and,
\* unless the draw raised, the call is entered
draw_room_on_map(m, room, distance) ==
    LET m1 == draw(m, room)
    IN  IF m1.pc = "raised" THEN m1
        ELSE [m1 EXCEPT
                !.pc = "walk",
                !.depth = (room :> (max_distance - distance)) @@ @,
                !.stack = Append(@, [room |-> room, distance |-> distance,
                                     todo |-> IF distance = 0 THEN {}
                                              ELSE MapExitsOf(room)])]

\* Map(caller): the walk starts in the observer's room
MapStart ==
    /\ mp.pc = "init"
    /\ mp' = draw_room_on_map(mp, mworld.start, max_distance)
    /\ UNCHANGED <<mworld, buildVars, wormVars, roomVars, rollVars, adjVars, itemVars>>

\* MapExploreExit without the has_drawn test
MapExploreExit_redraw ==
    /\ mp.pc = "walk"
    /\ mp.stack # << >>
    /\ mp.stack[Len(mp.stack)].todo # {}
    /\ LET top == Len(mp.stack)
           frame == mp.stack[top]
       IN  \E exit \in {NextExit(frame.todo)} :
             LET m1 == [mp EXCEPT !.stack[top].todo = frame.todo \ {exit}]
             IN  IF exit.name \notin CompassNames
                 THEN mp' = m1
                 ELSE LET pos == Map_update_pos(mp.worm_has_mapped[frame.room], exit.name)
                      IN  mp' = draw_room_on_map(
                                   [m1 EXCEPT !.curX = pos[1], !.curY = pos[2]],
                                   exit.destination, frame.distance - 1)
    /\ UNCHANGED <<mworld, buildVars, wormVars, roomVars, rollVars, adjVars, itemVars>>

\* One iteration of `for exit in room.exits` in the innermost
\* draw_room_on_map
MapExploreExit ==
    /\ mp.pc = "walk"
    /\ mp.stack # << >>
    /\ mp.stack[Len(mp.stack)].todo # {}
    /\ LET top == Len(mp.stack)
           frame == mp.stack[top]
       IN  \E exit \in {NextExit(frame.todo)} :
             LET m1 == [mp EXCEPT !.stack[top].todo = frame.todo \ {exit}]
             IN  IF exit.name \notin CompassNames
                 THEN mp' = m1
                 ELSE IF exit.destination \in DOMAIN mp.worm_has_mapped
                 THEN mp' = m1
                 ELSE LET pos == Map_update_pos(mp.worm_has_mapped[frame.room], exit.name)
                      IN  mp' = draw_room_on_map(
                                   [m1 EXCEPT !.curX = pos[1], !.curY = pos[2]],
                                   exit.destination, frame.distance - 1)
    /\ UNCHANGED <<mworld, buildVars, wormVars, roomVars, rollVars, adjVars, itemVars>>

\* The innermost draw_room_on_map returns: distance 0 or the loop is over
MapReturn ==
    /\ mp.pc = "walk"
    /\ mp.stack # << >>
    /\ mp.stack[Len(mp.stack)].todo = {}
    /\ mp' = [mp EXCEPT !.stack = SubSeq(mp.stack, 1, Len(mp.stack) - 1)]
    /\ UNCHANGED <<mworld, buildVars, wormVars, roomVars, rollVars, adjVars, itemVars>>

\* The walk is over: caller.ndb.nearby_rooms = worm_has_mapped_room_ids
MapFinish ==
    /\ mp.pc = "walk"
    /\ mp.stack = << >>
    /\ mp' = [mp EXCEPT !.pc = "done",
                        !.nearby_rooms = [set |-> TRUE,
                                          ids |-> mp.worm_has_mapped_room_ids]]
    /\ UNCHANGED <<mworld, buildVars, wormVars, roomVars, rollVars, adjVars, itemVars>>

MapRoomIds == 1 .. NMapRooms

\* The exit names of a freely connected area
MapPalettes == {{"northwest", "southeast"}, {"north", "up"}}

MapExitUniverse(names) ==
    {[location |-> a, name |-> n, destination |-> b] :
        a \in MapRoomIds, n \in names, b \in MapRoomIds}

\* Freely connected areas around the observer in room 1; room 2 shows any
\* face
AreaWorlds ==
    {[start |-> 1, order |-> o,
      rooms |-> [r \in MapRoomIds |->
                   [map_symbol |-> (IF r = 2 THEN f ELSE PlainFace).map_symbol,
                    info |-> (IF r = 2 THEN f ELSE PlainFace).info,
                    elev |-> 0]],
      exits |-> ex] :
        o \in {1, -1}, f \in MapFaces,
        ex \in UNION {SubsetsUpTo({e \in MapExitUniverse(names) :
                                      e.location # e.destination}, MaxMapExits) :
                         names \in MapPalettes}}

\* The exit name leading back along a corridor
CorridorBack(d) ==
    CASE d = "east" -> "west"
      [] d = "north" -> "south"
      [] d = "southwest" -> "northeast"

\* Corridors 1 - 2 - ... - n in one direction, with or without the exits
\* back; room 1 or room 2 shows any face at any elevation
CorridorWorlds ==
    {[start |-> 1, order |-> 1,
      rooms |-> [r \in 1 .. n |->
                   [map_symbol |-> (IF r = k THEN f ELSE PlainFace).map_symbol,
                    info |-> (IF r = k THEN f ELSE PlainFace).info,
                    elev |-> IF r = k THEN el ELSE 0]],
      exits |-> {[location |-> r, name |-> d, destination |-> r + 1] : r \in 1 .. n - 1}
                \cup (IF back
                      THEN {[location |-> r + 1, name |-> CorridorBack(d), destination |-> r] :
                              r \in 1 .. n - 1}
                      ELSE {})] :
        n \in 2 .. MaxCorridor, d \in {"east", "north", "southwest"},
        back \in BOOLEAN, k \in {1, 2}, f \in MapFaces, el \in MapElevations}

\* Rings: a chain 1 - 2 - ... - (n-1) eastward, a direct exit north from
\* room 1 to room n-1, and room n north of room n-1; either exit of room 1
\* may come first
RingWorlds ==
    {[start |-> 1, order |-> o,
      rooms |-> [r \in 1 .. n |->
                   [map_symbol |-> PlainFace.map_symbol, info |-> PlainFace.info,
                    elev |-> 0]],
      exits |-> {[location |-> r, name |-> "east", destination |-> r + 1] : r \in 1 .. n - 2}
                \cup {[location |-> 1, name |-> "north", destination |-> n - 1],
                      [location |-> n - 1, name |-> "north", destination |-> n]}] :
        n \in 4 .. MaxCorridor, o \in {1, -1}}

InitMap ==
    /\ mworld \in AreaWorlds \cup CorridorWorlds \cup RingWorlds
    /\ mp = NewMap
    /\ IdleBuild
    /\ wrooms = << >> /\ wexits = {} /\ worm = IdleWorm
    /\ rm = IdleRoom
    /\ roll = IdleRoll
    /\ adj = IdleAdj
    /\ it = IdleItem

NextMap ==
    \/ MapStart
    \/ MapExploreExit
    \/ MapReturn
    \/ MapFinish

SpecMap == InitMap /\ [][NextMap]_vars /\ WF_vars(NextMap)

(***************************************************************************)
(* Properties of the overhead map                                          *)
(***************************************************************************)
MapCompassExits == {e \in mworld.exits : e.name \in CompassNames}

\* The elevation of room r above the observer's room
ElevationDiff(r) == mworld.rooms[r].elev - mworld.rooms[mworld.start].elev

\* C14: the walk ends; no room is drawn twice; every recorded room other
\* than the observer's was entered over a compass-named exit from a room
\* recorded one hop earlier; no room is recorded at more than 10 hops.
C14_MapWalkBounded ==
    /\ <>(mp.pc \in {"done", "raised"})
    /\ [](\A i, j \in 1 .. Len(mp.drawn) : mp.drawn[i] = mp.drawn[j] => i = j)
    /\ [](/\ max_distance = 10
          /\ \A r \in DOMAIN mp.depth :
               /\ mp.depth[r] <= 10
               /\ r # mworld.start =>
                    \E e \in MapCompassExits :
                       /\ e.destination = r
                       /\ e.location \in DOMAIN mp.depth
                       /\ mp.depth[e.location] = mp.depth[r] - 1)

\* The walk has finished on a corridor of 12 rooms with exits back: the
\* room 10 hops away is recorded, the room 11 hops away is not
C14_Witness ==
    /\ mp.pc = "done"
    /\ DOMAIN mworld.rooms = 1 .. 12
    /\ [location |-> 2, name |-> "west", destination |-> 1] \in mworld.exits
    /\ DOMAIN mp.worm_has_mapped = 1 .. 11
    /\ mp.depth[11] = 10

\* C16: a room drawn with a five-glyph set gets the entry chosen by its
\* elevation above the observer's room: below -125 entry 0, from -125 to
\* below -25 entry 1, from -25 to 25 entry 2, above 25 to below 125 entry 3,
\* above 125 entry 4.
C16_ElevationIndex ==
    \A r \in DOMAIN mp.worm_has_mapped :
      (/\ r # mworld.start
       /\ mworld.rooms[r].map_symbol = "set5"
       /\ mp.worm_has_mapped[r] \in MAPPABLE_ROOM_COORDS
       /\ ElevationDiff(r) # 125) =>
        /\ r \in DOMAIN mp.elev_index
        /\ ElevationDiff(r) < -125 => mp.elev_index[r] = 0
        /\ (-125 <= ElevationDiff(r) /\ ElevationDiff(r) < -25) => mp.elev_index[r] = 1
        /\ (-25 <= ElevationDiff(r) /\ ElevationDiff(r) <= 25) => mp.elev_index[r] = 2
        /\ (25 < ElevationDiff(r) /\ ElevationDiff(r) < 125) => mp.elev_index[r] = 3
        /\ ElevationDiff(r) > 125 => mp.elev_index[r] = 4

\* A room 26 m below the observer has been drawn with entry 1
C16_Witness ==
    /\ mp.pc = "done"
    /\ 2 \in DOMAIN mp.elev_index
    /\ ElevationDiff(2) = -26
    /\ mp.elev_index[2] = 1
    /\ mp.grid[mp.worm_has_mapped[2]] = Glyph("map_symbol", 1)

\* C17: a connector is placed one step along a compass exit of a drawn room
\* only if the cell two steps along that exit is mappable.
C17_ConnectorsTowardMappable ==
    \A c \in mp.conn :
      Map_update_pos(mp.worm_has_mapped[c.room], c.name) \in MAPPABLE_ROOM_COORDS

\* C18: after a render the nearby-room list holds the observer's room and
\* exactly the rooms the walk put on a mappable cell, whatever glyph path
\* drew them.
C18_NearbyRoomsAreDrawnRooms ==
    mp.pc = "done" =>
      /\ mp.nearby_rooms.set
      /\ Range(mp.nearby_rooms.ids) =
           {mworld.start} \cup
           {r \in DOMAIN mp.worm_has_mapped :
              mp.worm_has_mapped[r] \in MAPPABLE_ROOM_COORDS}

\* C19 as stated: the mappable set has 63 cells and only they receive a
\* room glyph.
C19_SixtyThreeCells ==
    /\ Cardinality(MAPPABLE_ROOM_COORDS) = 63
    /\ DOMAIN mp.grid \subseteq MAPPABLE_ROOM_COORDS

\* C19, amended: the mappable set has 61 cells of the 21 x 21 grid and only
\* they receive a room glyph.
C19_SixtyOneCells ==
    /\ Cardinality(MAPPABLE_ROOM_COORDS) = 61
    /\ MAPPABLE_ROOM_COORDS \subseteq (0 .. max_width - 1) \X (0 .. max_length - 1)
    /\ DOMAIN mp.grid \subseteq MAPPABLE_ROOM_COORDS

\* A walk has ended with rooms positioned off the mappable set and glyphs
\* on the last mappable cell of the row and on the cells before it
C19_Witness ==
    /\ mp.pc = "done"
    /\ <<10, 20>> \in DOMAIN mp.grid
    /\ Cardinality(DOMAIN mp.grid) = 6
    /\ \E r \in DOMAIN mp.worm_has_mapped : mp.worm_has_mapped[r] = <<10, 22>>

RECURSIVE MapWithin(_)
\* The rooms at most k compass-named exits away from the observer's room
MapWithin(k) ==
    IF k = 0 THEN {mworld.start}
    ELSE LET P == MapWithin(k - 1)
         IN  P \cup {e.destination : e \in {x \in MapCompassExits : x.location \in P}}

\* C27 as stated: when the walk has finished, every room whose shortest
\* path over compass-named exits from the observer's room has at most 10
\* hops is recorded, and has a glyph on its cell when the cell is mappable.
C27_WalkCompleteWithinRadius ==
    mp.pc = "done" =>
      \A r \in MapWithin(10) :
        /\ r \in DOMAIN mp.worm_has_mapped
        /\ mp.worm_has_mapped[r] \in MAPPABLE_ROOM_COORDS =>
             mp.worm_has_mapped[r] \in DOMAIN mp.grid

\* C27, amended: when the walk has finished, every room that a
\* compass-named exit leads to from a room the walk recorded at fewer than
\* 10 hops of the walk is recorded, and every recorded room has a glyph on
\* its cell when the cell is mappable.
C27_WalkCompleteAlongWalk ==
    mp.pc = "done" =>
      /\ mworld.start \in DOMAIN mp.worm_has_mapped
      /\ \A r \in DOMAIN mp.depth :
           mp.depth[r] < 10 =>
             \A e \in MapCompassExits :
                e.location = r => e.destination \in DOMAIN mp.worm_has_mapped
      /\ \A r \in DOMAIN mp.worm_has_mapped :
           mp.worm_has_mapped[r] \in MAPPABLE_ROOM_COORDS =>
             mp.worm_has_mapped[r] \in DOMAIN mp.grid

\* The walk has finished on a ring whose far room was entered at the tenth
\* hop of the walk: the room north of it, two exits from the observer, is
\* not recorded
C27_Witness ==
    /\ mp.pc = "done"
    /\ DOMAIN mworld.rooms = 1 .. 12
    /\ [location |-> 1, name |-> "north", destination |-> 11] \in mworld.exits
    /\ mp.depth[11] = 10
    /\ 12 \in MapWithin(2)
    /\ 12 \notin DOMAIN mp.worm_has_mapped

\* C28: get_elev_index gives an index in 0..4 for every elevation
\* difference, so every room drawn with a five-glyph set on a mappable cell
\* gets an entry of its set.
C28_ElevIndexTotal ==
    \A r \in DOMAIN mp.worm_has_mapped :
      (/\ r # mworld.start
       /\ mworld.rooms[r].map_symbol = "set5"
       /\ mp.worm_has_mapped[r] \in MAPPABLE_ROOM_COORDS) =>
        /\ r \in DOMAIN mp.elev_index
        /\ mp.elev_index[r] \in 0 .. 4

(***************************************************************************)
(* Wear and use of one item: condition changes, consumption, lighting.     *)
(* Condition is in tenths.                                                 *)
(***************************************************************************)

\* The current value of a static trait: its base plus its modifier
TraitCurrent(trait) == trait.base + trait.mod

\* Item.at_object_creation and its overrides, as far as wear and use read
\* them: condition 1, and for a Consumnable a gauge of 10 charges
UsedItem(typeclass, cond_base, charge_base) ==
    [typeclass |-> typeclass, exists |-> TRUE,
     cond |-> [base |-> cond_base, mod |-> 0],
     charge |-> [base |-> charge_base, mod |-> 0, current |-> charge_base],
     lit |-> FALSE]

NoUse ==
    [op |-> "none", amount |-> 0, actor |-> FALSE, cond_before |-> 0,
     charge_before |-> 0, lit_before |-> FALSE, broke |-> FALSE,
     announced |-> FALSE, raised |-> FALSE, trash_rows |-> 0]

InitUse ==
    /\ \E tc \in {"Item", "Consumnable", "LightSource"},
          cond_base \in {0, 5, 10}, charge_base \in {1, 10} :
         it = [pc |-> "use", item |-> UsedItem(tc, cond_base, charge_base),
               last |-> NoUse]
    /\ IdleBuild
    /\ wrooms = << >> /\ wexits = {} /\ worm = IdleWorm
    /\ rm = IdleRoom
    /\ roll = IdleRoll
    /\ adj = IdleAdj
    /\ mworld = IdleMap /\ mp = IdleMap

\* Item.change_condition(amount): `self.traits.cond.mod + amount` computes a
\* sum and drops it; at_break runs when the condition, unchanged, is zero or
\* below
change_condition(item, amount) ==
    [item |-> item, breaks |-> TraitCurrent(item.cond) <= 0]

\* The condition of the item is changed by amount
ChangeConditionStep ==
    /\ it.pc = "use"
    /\ it.item.exists
    /\ \E amount \in {-10, -5, 3}, row \in {0, 1} :
         LET res == change_condition(it.item, amount)
             brk == at_break((1 :> res.item), 1, row)
         IN  /\ ~res.breaks => row = 0
             /\ it' = [it EXCEPT
                         !.item = IF res.breaks THEN brk.items[1] ELSE res.item,
                         !.last = [NoUse EXCEPT
                                     !.op = "condition", !.amount = amount,
                                     !.cond_before = TraitCurrent(it.item.cond),
                                     !.broke = res.breaks,
                                     !.announced = res.breaks /\ brk.announced,
                                     !.raised = res.breaks /\ brk.raised,
                                     !.trash_rows = IF res.breaks THEN brk.trash_rows ELSE 0]]
    /\ UNCHANGED <<buildVars, wormVars, roomVars, rollVars, adjVars, mapVars>>

\* Consumnable.at_consume(charges_to_consume): `self.traits.charge.mod -
\* charges_to_consume` computes a difference and drops it; at_consumed
\* announces and deletes when the gauge, unchanged, is zero or below
at_consume(item, charges_to_consume) ==
    IF item.charge.current <= 0
    THEN [item |-> [item EXCEPT !.exists = FALSE], announced |-> TRUE]
    ELSE [item |-> item, announced |-> FALSE]

\* Charges of a Consumnable are consumed
ConsumeStep ==
    /\ it.pc = "use"
    /\ it.item.exists
    /\ it.item.typeclass = "Consumnable"
    /\ \E n \in {1, 4, 10, 12} :
         LET res == at_consume(it.item, n)
         IN  it' = [it EXCEPT
                      !.item = res.item,
                      !.last = [NoUse EXCEPT
                                  !.op = "consume", !.amount = n,
                                  !.charge_before = it.item.charge.current,
                                  !.announced = res.announced]]
    /\ UNCHANGED <<buildVars, wormVars, roomVars, rollVars, adjVars, mapVars>>

\* LightSource.at_light(lighter): with a lighter the announcement reads
\* lighter.nanme, which no object has, and the call raises before the flag
\* is set
at_light(item, lighter) ==
    IF lighter
    THEN [item |-> item, announced |-> FALSE, raised |-> TRUE]
    ELSE [item |-> [item EXCEPT !.lit = TRUE], announced |-> TRUE, raised |-> FALSE]

\* LightSource.at_darken(darkener): with a darkener the announcement reads
\* the undefined name lighter, and the call raises before the flag is set
at_darken(item, darkener) ==
    IF darkener
    THEN [item |-> item, announced |-> FALSE, raised |-> TRUE]
    ELSE [item |-> [item EXCEPT !.lit = FALSE], announced |-> TRUE, raised |-> FALSE]

\* The light source is lit, by someone or by nobody in particular
LightStep ==
    /\ it.pc = "use"
    /\ it.item.exists
    /\ it.item.typeclass = "LightSource"
    /\ \E lighter \in BOOLEAN :
         LET res == at_light(it.item, lighter)
         IN  it' = [it EXCEPT
                      !.item = res.item,
                      !.last = [NoUse EXCEPT
                                  !.op = "light", !.actor = lighter,
                                  !.lit_before = it.item.lit,
                                  !.announced = res.announced,
                                  !.raised = res.raised]]
    /\ UNCHANGED <<buildVars, wormVars, roomVars, rollVars, adjVars, mapVars>>

\* The light source is extinguished
DarkenStep ==
    /\ it.pc = "use"
    /\ it.item.exists
    /\ it.item.typeclass = "LightSource"
    /\ \E darkener \in BOOLEAN :
         LET res == at_darken(it.item, darkener)
         IN  it' = [it EXCEPT
                      !.item = res.item,
                      !.last = [NoUse EXCEPT
                                  !.op = "darken", !.actor = darkener,
                                  !.lit_before = it.item.lit,
                                  !.announced = res.announced,
                                  !.raised = res.raised]]
    /\ UNCHANGED <<buildVars, wormVars, roomVars, rollVars, adjVars, mapVars>>

NextUse ==
    \/ ChangeConditionStep
    \/ ConsumeStep
    \/ LightStep
    \/ DarkenStep

SpecUse == InitUse /\ [][NextUse]_vars

\* C21: change_condition(amount) moves the condition by amount, and the
\* item is broken exactly when the condition that results is zero or below.
C21_ConditionDeltaBreaks ==
    (it.pc = "use" /\ it.last.op = "condition") =>
      /\ TraitCurrent(it.item.cond) = it.last.cond_before + it.last.amount
      /\ it.last.broke <=> (it.last.cond_before + it.last.amount <= 0)

\* C22: at_consume(n) lowers the gauge by n; the item is announced as
\* consumed and deleted exactly when the gauge is then zero or below, so an
\* item that exists never holds a gauge at or below zero.
C22_ConsumeDepletes ==
    (it.pc = "use" /\ it.last.op = "consume") =>
      /\ it.item.charge.current = it.last.charge_before - it.last.amount
      /\ (~it.item.exists /\ it.last.announced)
           <=> (it.last.charge_before - it.last.amount <= 0)
      /\ it.item.exists => it.item.charge.current > 0

\* C23: at_light leaves the lit flag true and at_darken leaves it false,
\* each with an announcement, with or without an acting character.
C23_LitFlagFollowsLastCall ==
    (it.pc = "use" /\ it.last.op \in {"light", "darken"}) =>
      /\ it.item.lit <=> (it.last.op = "light")
      /\ it.last.announced

(***************************************************************************)
(* The traits sub-menu of the item sculpting menu.  Trait bases are in     *)
(* hundredths.                                                             *)
(***************************************************************************)

\* Inputs in one session of the menu
MaxSculpts == 2

\* The trait bases the creation hooks give an item of each typeclass
SculptTraits(typeclass) ==
    LET item == [k \in {"val", "mass", "hp", "qual", "cond", "cap"} |->
                   CASE k = "val" -> 100 [] k = "mass" -> 50 [] k = "hp" -> 1000
                     [] k = "qual" -> 25 [] k = "cond" -> 100 [] k = "cap" -> 1000]
    IN  CASE typeclass = "Item" -> item
          [] typeclass = "Furnishing" -> item @@ [k \in {"comfort", "light"} |->
                                                    IF k = "comfort" THEN 50 ELSE 0]
          [] typeclass = "LightSource" -> item @@ [k \in {"light"} |-> 10000]
          [] typeclass = "Consumnable" -> item @@ [k \in {"charge"} |-> 1000]

\* What the builder types into the traits sub-menu
SculptLines ==
    {<<"4", ".", " ", "0", ".", "5">>,
     <<"4", ".", " ", "1", ".", "5">>,
     <<"4", ".", " ", "-", "1">>,
     <<"5", ".", " ", "0">>,
     <<"5", ".", " ", "2">>,
     <<"7", ".", " ", "0", ".", "5">>,
     <<"7", ".", " ", "1", ".", "0", "1">>,
     <<"8", ".", " ", "1">>,
     <<"8", ".", " ", "1", "0", "0">>,
     <<"2", ".", " ", "2", "5", "0">>,
     <<"6", ".", " ", "-", "3">>,
     <<"9", ".", " ", "5", "0", "0">>,
     <<"9", ".", " ", "2", ".", "5">>,
     <<"4", ".", " ", "x">>,
     <<"1", ".", " ", "7">>,
     <<"3", ".", " ", "-", "2", "0">>,
     <<"0", ".", " ", "1">>,
     <<"7", ".">>}

\* nomatch_traits of the item menu without the range test on comfort
item_nomatch_traits_comfort(traits, string) ==
    LET cmd_str == PySliceFrom(string, 3)
        opt == PySliceTo(string, 1)
        failed == [traits |-> traits, msg |-> "traceback"]
        SetInt(key, msg) ==
            IF PyInt(cmd_str).ok /\ key \in DOMAIN traits
            THEN [traits |-> [traits EXCEPT ![key] = 100 * PyInt(cmd_str).v], msg |-> msg]
            ELSE failed
        SetFloat(key, msg) ==
            IF PyFloat(cmd_str).ok /\ key \in DOMAIN traits
            THEN [traits |-> [traits EXCEPT ![key] = PyFloat(cmd_str).v], msg |-> msg]
            ELSE failed
        SetRatio(key, msg) ==
            IF ~PyFloat(cmd_str).ok THEN failed
            ELSE IF 0 <= PyFloat(cmd_str).v /\ PyFloat(cmd_str).v <= 100
            THEN SetFloat(key, msg)
            ELSE [traits |-> traits, msg |-> "Choose a value between 0 and 1"]
    IN  IF ~(Len(string) > 2) THEN [traits |-> traits, msg |-> ""]
        ELSE IF opt = <<"1">> THEN SetInt("val", "Set Value to")
        ELSE IF opt = <<"2">> THEN SetFloat("mass", "Set Mass to")
        ELSE IF opt = <<"3">> THEN SetInt("hp", "Set HPs to")
        ELSE IF opt = <<"4">> THEN SetRatio("qual", "Set Quality to")
        ELSE IF opt = <<"5">> THEN SetRatio("cond", "Set Condition to")
        ELSE IF opt = <<"6">> THEN SetFloat("cap", "Set Capacity to")
        ELSE IF opt = <<"7">> THEN SetFloat("comfort", "Set Comfort to")
        ELSE IF opt = <<"8">> THEN SetRatio("light", "Set Light Intensity to")
        ELSE IF opt = <<"9">> THEN SetInt("charge", "Set # of Charges to")
        ELSE [traits |-> traits, msg |-> "Unknown Command"]

\* nomatch_traits(menu, caller, item, string) of the item sculpting menu.  A
\* conversion that raises, or a trait the item does not have, leaves the
\* item as it was.
item_nomatch_traits(traits, string) ==
    LET cmd_str == PySliceFrom(string, 3)
        opt == PySliceTo(string, 1)
        failed == [traits |-> traits, msg |-> "traceback"]
        SetInt(key, msg) ==
            IF PyInt(cmd_str).ok /\ key \in DOMAIN traits
            THEN [traits |-> [traits EXCEPT ![key] = 100 * PyInt(cmd_str).v], msg |-> msg]
            ELSE failed
        SetFloat(key, msg) ==
            IF PyFloat(cmd_str).ok /\ key \in DOMAIN traits
            THEN [traits |-> [traits EXCEPT ![key] = PyFloat(cmd_str).v], msg |-> msg]
            ELSE failed
        SetRatio(key, msg) ==
            IF ~PyFloat(cmd_str).ok THEN failed
            ELSE IF 0 <= PyFloat(cmd_str).v /\ PyFloat(cmd_str).v <= 100
            THEN SetFloat(key, msg)
            ELSE [traits |-> traits, msg |-> "Choose a value between 0 and 1"]
    IN  IF ~(Len(string) > 2) THEN [traits |-> traits, msg |-> ""]
        ELSE IF opt = <<"1">> THEN SetInt("val", "Set Value to")
        ELSE IF opt = <<"2">> THEN SetFloat("mass", "Set Mass to")
        ELSE IF opt = <<"3">> THEN SetInt("hp", "Set HPs to")
        ELSE IF opt = <<"4">> THEN SetRatio("qual", "Set Quality to")
        ELSE IF opt = <<"5">> THEN SetRatio("cond", "Set Condition to")
        ELSE IF opt = <<"6">> THEN SetFloat("cap", "Set Capacity to")
        ELSE IF opt = <<"7">> THEN SetRatio("comfort", "Set Comfort to")
        ELSE IF opt = <<"8">> THEN SetRatio("light", "Set Light Intensity to")
        ELSE IF opt = <<"9">> THEN SetInt("charge", "Set # of Charges to")
        ELSE [traits |-> traits, msg |-> "Unknown Command"]

InitSculpt ==
    /\ \E tc \in {"Item", "Furnishing", "LightSource", "Consumnable"} :
         it = [pc |-> "sculpt", typeclass |-> tc, traits |-> SculptTraits(tc),
               traits_before |-> SculptTraits(tc), line |-> << >>, msg |-> "",
               edits |-> 0]
    /\ IdleBuild
    /\ wrooms = << >> /\ wexits = {} /\ worm = IdleWorm
    /\ rm = IdleRoom
    /\ roll = IdleRoll
    /\ adj = IdleAdj
    /\ mworld = IdleMap /\ mp = IdleMap

\* One input in the traits sub-menu
SculptTraitsStep ==
    /\ it.pc = "sculpt"
    /\ it.edits < MaxSculpts
    /\ \E string \in SculptLines :
         LET res == item_nomatch_traits(it.traits, string)
         IN  it' = [it EXCEPT !.traits = res.traits, !.traits_before = it.traits,
                              !.line = string, !.msg = res.msg, !.edits = @ + 1]
    /\ UNCHANGED <<buildVars, wormVars, roomVars, rollVars, adjVars, mapVars>>

NextSculpt == SculptTraitsStep

SpecSculpt == InitSculpt /\ [][NextSculpt]_vars

\* The trait an option of the sub-menu stands for
SculptKey(opt) ==
    CASE opt = <<"2">> -> "mass" [] opt = <<"4">> -> "qual"
      [] opt = <<"5">> -> "cond" [] opt = <<"6">> -> "cap"
      [] opt = <<"7">> -> "comfort" [] opt = <<"8">> -> "light"
      [] opt = <<"9">> -> "charge" [] OTHER -> ""

\* C25: a number typed for quality, condition, comfort or light intensity
\* outside [0,1] is answered with a message and changes no trait, one inside
\* [0,1] becomes the base of that trait and of no other; a number typed for
\* mass, capacity or charges becomes the base whatever its size.
C25_RatioTraitsRangeChecked ==
    (it.pc = "sculpt" /\ Len(it.line) > 2) =>
      LET opt == PySliceTo(it.line, 1)
          key == SculptKey(opt)
          text == PySliceFrom(it.line, 3)
          num == IF opt = <<"9">> THEN [ok |-> PyInt(text).ok, v |-> 100 * PyInt(text).v]
                 ELSE PyFloat(text)
      IN  (key \in DOMAIN it.traits_before /\ num.ok) =>
            IF opt \in {<<"4">>, <<"5">>, <<"7">>, <<"8">>} /\ (num.v < 0 \/ num.v > 100)
            THEN /\ it.msg = "Choose a value between 0 and 1"
                 /\ it.traits = it.traits_before
            ELSE it.traits = [it.traits_before EXCEPT ![key] = num.v]

\* Comfort 1.01 has just been refused on a furnishing whose quality an
\* earlier input set to 0.5
C25_Witness ==
    /\ it.pc = "sculpt"
    /\ it.typeclass = "Furnishing"
    /\ it.line = <<"7", ".", " ", "1", ".", "0", "1">>
    /\ it.msg = "Choose a value between 0 and 1"
    /\ it.traits["comfort"] = 50
    /\ it.traits["qual"] = 50

(***************************************************************************)
(* @createbuilding and the update of a Building to current spec.           *)
(***************************************************************************)

\* Most buildings created, and most updates run
MaxBuildings == 2
MaxUpdates == 2

\* The outdoor rooms the builder may stand in
OutdoorRooms == {1, 2, 3}

BuildingObj(typeclass, key, location, zone) ==
    [typeclass |-> typeclass, key |-> key, location |-> location,
     zone |-> zone, entryway |-> 0]

\* Building.make_building_entry_room: a BuildingEntrance inside the
\* building, its zone the building's key, recorded as the entryway
make_building_entry_room(objs, self, new_id) ==
    LET entryway_room == BuildingObj("BuildingEntrance",
                                     <<"Entryway for", objs[self].key>>,
                                     self, objs[self].key)
        made == [i \in DOMAIN objs \cup {new_id} |->
                   IF i = new_id THEN entryway_room ELSE objs[i]]
    IN  [made EXCEPT ![self].entryway = new_id]

\* Building.at_object_creation, run at creation and at every forced update;
\* the trait bases it sets do not bear on the rooms
Building_at_object_creation(objs, self, new_id) ==
    make_building_entry_room(objs, self, new_id)

BuildingIds(objs) == {i \in DOMAIN objs : objs[i].typeclass = "Building"}

InitBuilding ==
    /\ it = [pc |-> "building",
             objs |-> [i \in OutdoorRooms |-> BuildingObj("Room", "Room", 0, "")],
             exits |-> {},
             next |-> 10,
             updates |-> 0]
    /\ IdleBuild
    /\ wrooms = << >> /\ wexits = {} /\ worm = IdleWorm
    /\ rm = IdleRoom
    /\ roll = IdleRoll
    /\ adj = IdleAdj
    /\ mworld = IdleMap /\ mp = IdleMap

\* CreateBuildingCmd.func with a name, in a room that holds no building yet
CreateBuildingStep ==
    /\ it.pc = "building"
    /\ Cardinality(BuildingIds(it.objs)) < MaxBuildings
    /\ \E location \in OutdoorRooms, args \in {"Inn", "Mill"} :
         /\ \A b \in BuildingIds(it.objs) : it.objs[b].location # location
         /\ LET building == it.next
                created == [i \in DOMAIN it.objs \cup {building} |->
                              IF i = building
                              THEN BuildingObj("Building", args, location, "")
                              ELSE it.objs[i]]
                objs == Building_at_object_creation(created, building, it.next + 1)
            IN  it' = [it EXCEPT
                         !.objs = objs,
                         !.next = @ + 2,
                         !.exits = ConnOpen(it.exits, location,
                                            << <<"enter building", "enter">>,
                                               <<"exit building", "exit">> >>,
                                            objs[building].entryway)]
    /\ UNCHANGED <<buildVars, wormVars, roomVars, rollVars, adjVars, mapVars>>

\* update_on_enter: the update command runs the building's creation
\* procedure again
UpdateBuildingStep ==
    /\ it.pc = "building"
    /\ it.updates < MaxUpdates
    /\ \E item \in BuildingIds(it.objs) :
         it' = [it EXCEPT
                  !.objs = Building_at_object_creation(it.objs, item, it.next),
                  !.next = @ + 1,
                  !.updates = @ + 1]
    /\ UNCHANGED <<buildVars, wormVars, roomVars, rollVars, adjVars, mapVars>>

NextBuilding == CreateBuildingStep \/ UpdateBuildingStep

SpecBuilding == InitBuilding /\ [][NextBuilding]_vars

\* C29: every created building, however often it was updated, holds exactly
\* one entrance room, and the exit 'enter building' of the room it stands in
\* leads to the room recorded as its entryway.
C29_OneEntranceBehindTheExit ==
    it.pc = "building" =>
      \A b \in BuildingIds(it.objs) :
        /\ Cardinality({r \in DOMAIN it.objs :
                          /\ it.objs[r].typeclass = "BuildingEntrance"
                          /\ it.objs[r].location = b}) = 1
        /\ \E e \in it.exits :
             e.src = it.objs[b].location /\ e.name = "enter building"
        /\ \A e \in it.exits :
             (e.src = it.objs[b].location /\ e.name = "enter building")
               => e.dst = it.objs[b].entryway

====
